---- MODULE Spec2Model ----
(***************************************************************************)
(* Model of the bigbrother workflow recorder (event-capture pipeline):     *)
(* the event-tap thread with its text coalescer, the app/window observer   *)
(* thread, the ephemeral helper threads, the bounded event channel and the *)
(* RecordingHandle that drains the channel into the workflow.              *)
(*                                                                         *)
(* Time is a discrete clock, now (milliseconds since recording start),     *)
(* advanced by Tick between any two steps; every thread reads it where the *)
(* code reads Instant::now() or start.elapsed().  The sleeps of the code    *)
(* (50 ms run-loop timeout, 50 ms clipboard delay, 100 ms poll period) are  *)
(* not tied to the clock: a sleeping thread resumes at any later step.      *)
(* Screen coordinates are counted in half pixels, so that the truncation   *)
(* of the f64 cursor location to i32 is visible.                           *)
(* The specifications below run the same recorder under different input    *)
(* alphabets: SpecText (keyboard), SpecMouse (mouse moves), SpecChannel    *)
(* (all producers of the channel), SpecObserver (the focus observer),     *)
(* SpecKeyDown (every kind of key-down), SpecStop (stopping with helper    *)
(* threads under way), SpecStopLive (stopping under fair scheduling) and   *)
(* Spec (the timeline of both threads).                                    *)
(*                                                                         *)
(* The other components are modelled next to it, each with its own         *)
(* variables, and stay idle while another one runs: the replayer           *)
(* (Replayer::play on the macOS and the Windows build: SpecReplay,         *)
(* SpecTiming, SpecKeys, and SpecTable for the text the recorder can       *)
(* produce), the workflow storage (save and load of the JSON               *)
(* lines file: SpecStorage), the selector parser with the round trip      *)
(* through Display (SpecSelector) and the automation core: the matching of *)
(* a condition against an element (SpecMatch), the searches of a Locator   *)
(* in an accessibility tree and the click on the element found             *)
(* (SpecLocator), its waiters wait() and                                   *)
(* wait_gone() on a tree that changes while they poll (SpecWait), and the  *)
(* tree walk of the Desktop with its cache of elements (SpecTree).  The    *)
(* input of a call (the workflow, the file, the selector string, the tree, *)
(* the locator) is drawn in the initial state.                             *)
(***************************************************************************)
EXTENDS Integers, Sequences, FiniteSets, TLC

\* ------------------------------------------------------------------ bounds
\* ticks of the clock
MaxTime == 2
\* OS inputs delivered to the tap plus polls of the observer that find an
\* active application
MaxStimuli == 2
\* largest channel capacity
MaxBuffer == 2
\* largest cursor coordinate, in half pixels
MaxCoord == 2
\* most events of a replayed workflow
MaxReplay == 2
\* most pieces a selector string is put together from
MaxPieces == 3
\* elements of an accessibility tree
MaxNodes == 4
\* the max_depth of a locator or of a tree walk
MaxDepth == 2
\* ticks of the clock during one wait() or wait_gone(), TickMs each
MaxWaitTicks == 3

\* ------------------------------------------------------- program constants
KEY_C == 8
KEY_X == 7
KEY_V == 9

\* length of the Paste and Window previews
PREVIEW_MAX == 100

SHIFT == 1
CTRL == 2
OPT == 4
CMD == 8
CAPS == 16
FN == 32

\* CGEventFlags masks tested by Modifiers::from_cg_flags
CG_CAPS == 65536
CG_SHIFT == 131072
CG_CTRL == 262144
CG_OPT == 524288
CG_CMD == 1048576
CG_FN == 8388608

\* ------------------------------------------------------------------ state
VARIABLES
    mouse_move_threshold,   \* RecorderConfig, in half pixels
    text_timeout_ms,        \* RecorderConfig
    max_buffer,             \* RecorderConfig: capacity of the channel
    capture_context,        \* RecorderConfig
    now,                    \* the monotonic clock, ms since start_time
    stop,                   \* Arc<AtomicBool>
    chan,                   \* the bounded crossbeam channel (FIFO)
    events,                 \* workflow.events
    text_buf,               \* TapState.text_buf
    last_mouse,             \* TapState.last_mouse
    tap_pc,                 \* position of the event-tap thread
    tap_key,                \* the Cmd+V key-down being handled (t, k, m)
    obs_pc,                 \* position of the app-observer thread
    obs,                    \* last_app, last_pid, last_window
    obs_cur,                \* the poll in progress: name, pid, app_changed
    handle_pc,              \* position of the thread owning the handle
    helpers,                \* spawned helper threads that have not sent yet
    ninputs,                \* OS inputs delivered to the tap so far
    npolls,                 \* polls of the observer so far
    nsent,                  \* try_send calls so far (numbers the events)
    typed,                  \* history: printable characters typed
    flushed,                \* history: characters of all Text events sent
    dropped,                \* history: numbers of the events dropped on full
    buf_at_stop,            \* history: text_buf.chars when stop was requested
    platform,               \* cfg(target_os) of the build: "macos" or "windows"
    speed,                  \* Replayer.speed, in quarters (4 is real time)
    play_wf,                \* the workflow handed to Replayer::play
    play_pc,                \* position of play(): idle, run, done or failed
    play_i,                 \* play(): events of the workflow handled so far
    last_t,                 \* play(): last_t
    stats,                  \* play(): ReplayStats
    slept,                  \* history: total of the delays play() slept, in ms
    posted,                 \* history: the inputs handed to the OS, in order
    files,                  \* WorkflowStorage.dir: file name -> lines
    store_wf,               \* the workflow the caller is going to save
    saved,                  \* history: the workflow and the path of the save()
    loaded,                 \* the Result of the load()
    sel_in,                 \* the string handed to Selector::parse
    sel_out,                \* the Result of Selector::parse
    sel_back,               \* the Result of parsing the selector's to_string()
    match_in,               \* the condition and the element handed to matches()
    match_out,              \* what Condition::matches and Locator::matches return
    ui,                     \* the accessibility tree under the root in use
    loc,                    \* the Locator: selector, timeout_ms, max_depth
    find_all_out,           \* the Result of Locator::find_all
    find_out,               \* the Result of Locator::find
    click_out,              \* the Result of UIElement::click on the element found
    w_fn,                   \* the waiter under way: none, wait or wait_gone
    w_pc,                   \* its position: find, check, sleep or done
    elapsed,                \* start.elapsed() of the waiter under way, in ms
    w_finds,                \* history: had find() succeeded, per poll of wait()
    w_out,                  \* the Result of wait() and of wait_gone()
    ui_changed,             \* history: the tree changed since the start
    app_up,                 \* the application named to Desktop::tree is running
    tree_cache,             \* Desktop.tree_cache
    tree_call,              \* history: the arguments of the last tree() call
    tree_out,               \* the Result of the last tree() call
    eb_out                  \* the element_by_index() that just returned: index, Result

cfgvars == <<mouse_move_threshold, text_timeout_ms, max_buffer, capture_context>>
tapvars == <<text_buf, last_mouse, tap_pc, tap_key>>
obsvars == <<obs_pc, obs, obs_cur, npolls>>
histvars == <<typed, flushed, dropped, buf_at_stop>>
\* the recorder
recvars == <<cfgvars, now, stop, chan, events, tapvars, obsvars, handle_pc,
             helpers, ninputs, nsent, histvars>>
\* the replayer
replayvars == <<platform, speed, play_wf, play_pc, play_i, last_t, stats, slept, posted>>
\* the workflow storage
storevars == <<files, store_wf, saved, loaded>>
\* the selector parser
selvars == <<sel_in, sel_out, sel_back>>
\* the matching of one element
matchvars == <<match_in, match_out>>
\* the automation core: matching, locator, waiter and tree walk
\* the locator and its one-shot searches
locvars == <<loc, find_all_out, find_out, click_out>>
\* the waiter
waitvars == <<w_fn, w_pc, elapsed, w_finds, w_out, ui_changed>>
\* the Desktop and its tree walk
deskvars == <<app_up, tree_cache, tree_call, tree_out, eb_out>>
corevars == <<matchvars, ui, locvars, waitvars, deskvars>>
\* what the recorder, the replayer, the storage and the parser never touch
nonrec == <<replayvars, storevars, selvars, corevars>>
nonreplay == <<recvars, storevars, selvars, corevars>>
nonstore == <<recvars, replayvars, selvars, corevars>>
nonsel == <<recvars, replayvars, storevars, corevars>>
noncore == <<recvars, replayvars, storevars, selvars>>
vars == <<recvars, replayvars, storevars, selvars, corevars>>

\* Option<T>
None == <<>>
Some(x) == <<x>>
IsSome(o) == Len(o) = 1
Unwrap(o) == o[1]

\* ------------------------------------------------------------- events.rs
Bit(n, mask) == (n \div mask) % 2 = 1

from_cg_flags(flags) ==
    (IF Bit(flags, CG_SHIFT) THEN SHIFT ELSE 0)
  + (IF Bit(flags, CG_CTRL) THEN CTRL ELSE 0)
  + (IF Bit(flags, CG_OPT) THEN OPT ELSE 0)
  + (IF Bit(flags, CG_CMD) THEN CMD ELSE 0)
  + (IF Bit(flags, CG_CAPS) THEN CAPS ELSE 0)
  + (IF Bit(flags, CG_FN) THEN FN ELSE 0)

has_cmd(m) == Bit(m, CMD)
has_ctrl(m) == Bit(m, CTRL)
any_modifier(m) == Bit(m, CMD) \/ Bit(m, CTRL)

\* ---------------------------------------------------- keycode_to_char
\* keycode -> <<plain, shifted>>; letters are upper-cased under shift, the
\* whitespace keys and backspace ignore it.  Characters that would need
\* escaping are spelled out (quote, dquote, backslash, lparen, rparen, star,
\* backtick, nl, tab, bs).
KeyTable ==
    [k \in {0,1,2,3,4,5,6,7,8,9,11,12,13,14,15,16,17,31,32,34,35,37,38,40,45,46,
            18,19,20,21,22,23,24,25,26,27,28,29,30,33,39,41,42,43,44,47,50,
            36,48,49,51} |->
      CASE k = 0 -> <<"a","A">> [] k = 1 -> <<"s","S">> [] k = 2 -> <<"d","D">>
        [] k = 3 -> <<"f","F">> [] k = 4 -> <<"h","H">> [] k = 5 -> <<"g","G">>
        [] k = 6 -> <<"z","Z">> [] k = 7 -> <<"x","X">> [] k = 8 -> <<"c","C">>
        [] k = 9 -> <<"v","V">> [] k = 11 -> <<"b","B">> [] k = 12 -> <<"q","Q">>
        [] k = 13 -> <<"w","W">> [] k = 14 -> <<"e","E">> [] k = 15 -> <<"r","R">>
        [] k = 16 -> <<"y","Y">> [] k = 17 -> <<"t","T">> [] k = 31 -> <<"o","O">>
        [] k = 32 -> <<"u","U">> [] k = 34 -> <<"i","I">> [] k = 35 -> <<"p","P">>
        [] k = 37 -> <<"l","L">> [] k = 38 -> <<"j","J">> [] k = 40 -> <<"k","K">>
        [] k = 45 -> <<"n","N">> [] k = 46 -> <<"m","M">>
        [] k = 18 -> <<"1","!">> [] k = 19 -> <<"2","@">> [] k = 20 -> <<"3","#">>
        [] k = 21 -> <<"4","$">> [] k = 22 -> <<"6","^">> [] k = 23 -> <<"5","%">>
        [] k = 24 -> <<"=","+">> [] k = 25 -> <<"9","lparen">> [] k = 26 -> <<"7","&">>
        [] k = 27 -> <<"-","_">> [] k = 28 -> <<"8","star">> [] k = 29 -> <<"0","rparen">>
        [] k = 30 -> <<"]","}">> [] k = 33 -> <<"[","{">> [] k = 39 -> <<"quote","dquote">>
        [] k = 41 -> <<";",":">> [] k = 42 -> <<"backslash","|">> [] k = 43 -> <<",","<">>
        [] k = 44 -> <<"/","?">> [] k = 47 -> <<".",">">> [] k = 50 -> <<"backtick","~">>
        [] k = 36 -> <<"nl","nl">> [] k = 48 -> <<"tab","tab">>
        [] k = 49 -> <<" "," ">> [] k = 51 -> <<"bs","bs">>]

keycode_to_char(keycode, m) ==
    LET shift == Bit(m, SHIFT) \/ Bit(m, CAPS) IN
    IF keycode \in DOMAIN KeyTable
    THEN Some(KeyTable[keycode][IF shift THEN 2 ELSE 1])
    ELSE None

\* ------------------------------------------------------------- recorder.rs
\* truncate(s, max)
truncate(s, max) ==
    IF Len(s) <= max THEN s ELSE SubSeq(s, 1, max - 3) \o <<".", ".", ".">>

\* f64 location (half pixels) as i32 (pixels); locations are non-negative
ToI32(h) == h \div 2

\* An event as it travels through the channel.  src and n are history
\* fields: the thread that sent it and the number of its try_send call.
\* History fields of the payloads: why and last of a Text event (the flush
\* that built it, the buffer's last_time at that flush) and click of a
\* Context event (the number of the Click event it was spawned for).
Ev(t, e, src, d) == [t |-> t, e |-> e, src |-> src, n |-> 0, d |-> d]

\* mutant: a full channel makes room by discarding its oldest event
TrySend_DropOldest(q, ev) ==
    IF Len(q) < max_buffer THEN Append(q, ev) ELSE Append(Tail(q), ev)

\* Sender::try_send on the bounded channel: Err(Full) leaves the queue alone
TrySend(q, ev) == IF Len(q) < max_buffer THEN Append(q, ev) ELSE q

Send(ev) ==
    LET e2 == [ev EXCEPT !.n = nsent + 1] IN
    /\ chan' = TrySend(chan, e2)
    /\ nsent' = nsent + 1
    /\ dropped' = IF Len(chan) < max_buffer THEN dropped ELSE dropped \cup {nsent + 1}

NoSend == UNCHANGED <<chan, nsent, dropped>>

\* TextBuffer
EmptyBuf == [chars |-> <<>>, first_time |-> None, last_time |-> None]

\* mutant: every push restarts first_time
push_RestartsFirst(buf, c, t) ==
    [chars |-> Append(buf.chars, c), first_time |-> Some(t), last_time |-> Some(t)]

push(buf, c, t) ==
    [chars |-> Append(buf.chars, c),
     first_time |-> IF buf.chars = <<>> THEN Some(t) ELSE buf.first_time,
     last_time |-> Some(t)]

\* TextBuffer::flush: the returned Option<String> and the buffer afterwards
flush_result(buf) == IF buf.chars = <<>> THEN None ELSE Some(buf.chars)
\* mutant: the characters stay buffered when the channel has no room
flush_buf_KeptWhenFull(buf) ==
    IF buf.chars = <<>> \/ Len(chan) >= max_buffer THEN buf ELSE EmptyBuf

flush_buf(buf) == IF buf.chars = <<>> THEN buf ELSE EmptyBuf

\* mutant: the idle period runs from the first buffered keystroke
should_flush_FromFirst(buf, t) ==
    IF IsSome(buf.first_time)
    THEN t - Unwrap(buf.first_time) >= text_timeout_ms
    ELSE FALSE

should_flush(buf, t) ==
    IF IsSome(buf.last_time)
    THEN t - Unwrap(buf.last_time) >= text_timeout_ms
    ELSE FALSE

\* mutant: the flush stamps the Text event with the buffer's last_time
FlushTime_LastTime(buf, t) == Unwrap(buf.last_time)

\* t of the Text event built by a flush: start.elapsed() at the flush
FlushTime(buf, t) == t

\* mutants: the distance must exceed the threshold; the distance is taken
\* along the axes
MoveEmits_Strict(x, y, last, threshold) ==
    (x - last[1]) * (x - last[1]) + (y - last[2]) * (y - last[2]) > threshold * threshold
MoveEmits_Manhattan(x, y, last, threshold) ==
    (IF x >= last[1] THEN x - last[1] ELSE last[1] - x)
      + (IF y >= last[2] THEN y - last[2] ELSE last[2] - y) >= threshold

\* the distance test of the mouse-move branch: sqrt(dx*dx + dy*dy) >= threshold,
\* compared on the squares (both sides are non-negative)
DistSq(x, y, last) == (x - last[1]) * (x - last[1]) + (y - last[2]) * (y - last[2])
MoveEmits(x, y, last, threshold) == DistSq(x, y, last) >= threshold * threshold

\* mutant: the context helper is spawned whatever the configuration says
SpawnsContext_Always(cc) == TRUE

\* whether a click spawns the context helper
SpawnsContext(cc) == cc

\* ------------------------------------------------------------------- Init
Thresholds == {0, 1, 2}
Timeouts == {1, 2}

InitState ==
    /\ now = 0
    /\ stop = FALSE
    /\ chan = <<>>
    /\ events = <<>>
    /\ text_buf = EmptyBuf
    /\ last_mouse = <<0, 0>>
    /\ tap_pc = "init"
    /\ tap_key = None
    /\ obs_pc = "loop"
    /\ obs = [last_app |-> None, last_pid |-> 0, last_window |-> None]
    /\ obs_cur = None
    /\ handle_pc = "idle"
    /\ helpers = {}
    /\ ninputs = 0
    /\ npolls = 0
    /\ nsent = 0
    /\ typed = <<>>
    /\ flushed = <<>>
    /\ dropped = {}
    /\ buf_at_stop = None

\* no replay is under way
ReplayIdle ==
    /\ platform = "macos"
    /\ speed = 4
    /\ play_wf = <<>>
    /\ play_pc = "idle"
    /\ play_i = 0
    /\ last_t = 0
    /\ stats = [clicks |-> 0, moves |-> 0, scrolls |-> 0, keys |-> 0, text_chars |-> 0]
    /\ slept = 0
    /\ posted = <<>>

\* the storage directory is empty
StorageIdle ==
    /\ files = <<>>
    /\ store_wf = None
    /\ saved = None
    /\ loaded = None

\* no selector is being parsed
SelectorIdle ==
    /\ sel_in = <<>>
    /\ sel_out = None
    /\ sel_back = None

\* no element is being matched
MatchIdle ==
    /\ match_in = None
    /\ match_out = None

\* no locator was built
LocatorIdle ==
    /\ loc = None
    /\ find_all_out = None
    /\ find_out = None
    /\ click_out = None

\* no waiter was called
WaitIdle ==
    /\ w_fn = "none"
    /\ w_pc = "done"
    /\ elapsed = 0
    /\ w_finds = <<>>
    /\ w_out = [wait |-> None, wait_gone |-> None]
    /\ ui_changed = FALSE

\* Desktop::default(), no tree walked
DesktopIdle ==
    /\ app_up = FALSE
    /\ tree_cache = <<>>
    /\ tree_call = None
    /\ tree_out = None
    /\ eb_out = None

\* the automation core is not in use
CoreIdle ==
    /\ MatchIdle
    /\ ui = None
    /\ LocatorIdle
    /\ WaitIdle
    /\ DesktopIdle

\* ------------------------------------------------------------ the clock
Tick ==
    /\ now < MaxTime
    /\ now' = now + 1
    /\ NoSend
    /\ UNCHANGED <<nonrec, cfgvars, stop, events, tapvars, obsvars, handle_pc, helpers,
                   ninputs, typed, flushed, buf_at_stop>>

\* --------------------------------------------------- the event-tap thread
\* run_event_tap up to the run loop: the tap or its run-loop source may fail
\* to be created, and the thread then returns at once.
TapInstall ==
    /\ tap_pc = "init"
    /\ tap_pc' = IF stop THEN "final" ELSE "run"
    /\ NoSend
    /\ UNCHANGED <<nonrec, cfgvars, now, stop, events, text_buf, last_mouse, tap_key,
                   obsvars, handle_pc, helpers, ninputs, typed, flushed, buf_at_stop>>

TapInstallFails ==
    /\ tap_pc = "init"
    /\ tap_pc' = "done"
    /\ NoSend
    /\ UNCHANGED <<nonrec, cfgvars, now, stop, events, text_buf, last_mouse, tap_key,
                   obsvars, handle_pc, helpers, ninputs, typed, flushed, buf_at_stop>>

\* what every callback invocation does besides its match arm: it runs inside
\* run_in_mode, which then returns to the loop body (returnAfterSourceHandled)
Callback ==
    /\ tap_pc = "run"
    /\ ninputs + npolls < MaxStimuli
    /\ ninputs' = ninputs + 1

\* LEFT_MOUSE_DOWN | RIGHT_MOUSE_DOWN
TapClick(x, y, btn, clicks, flags) ==
    LET mods == from_cg_flags(flags) IN
    /\ Callback
    /\ Send(Ev(now, "c", "tap",
               [x |-> ToI32(x), y |-> ToI32(y), b |-> btn, n |-> clicks, m |-> mods]))
    /\ helpers' = IF SpawnsContext(capture_context)
                  THEN helpers \cup {[id |-> ninputs + 1, kind |-> "ctx", click |-> nsent + 1]}
                  ELSE helpers
    /\ tap_pc' = "check"
    /\ UNCHANGED <<nonrec, cfgvars, now, stop, events, text_buf, last_mouse, tap_key,
                   obsvars, handle_pc, typed, flushed, buf_at_stop>>

\* MOUSE_MOVED | LEFT_MOUSE_DRAGGED | RIGHT_MOUSE_DRAGGED
TapMove(x, y) ==
    /\ Callback
    /\ IF MoveEmits(x, y, last_mouse, mouse_move_threshold)
       THEN /\ last_mouse' = <<x, y>>
            /\ Send(Ev(now, "m", "tap", [x |-> ToI32(x), y |-> ToI32(y)]))
       ELSE /\ UNCHANGED last_mouse
            /\ NoSend
    /\ tap_pc' = "check"
    /\ UNCHANGED <<nonrec, cfgvars, now, stop, events, text_buf, tap_key, obsvars,
                   handle_pc, helpers, typed, flushed, buf_at_stop>>

\* SCROLL_WHEEL
TapScroll(x, y, dx, dy) ==
    /\ Callback
    /\ IF dx # 0 \/ dy # 0
       THEN Send(Ev(now, "s", "tap",
                    [x |-> ToI32(x), y |-> ToI32(y), dx |-> dx, dy |-> dy]))
       ELSE NoSend
    /\ tap_pc' = "check"
    /\ UNCHANGED <<nonrec, cfgvars, now, stop, events, text_buf, last_mouse, tap_key,
                   obsvars, handle_pc, helpers, typed, flushed, buf_at_stop>>

\* the other event types of the mask (mouse up): the catch-all arm
TapIgnored ==
    /\ Callback
    /\ NoSend
    /\ tap_pc' = "check"
    /\ UNCHANGED <<nonrec, cfgvars, now, stop, events, text_buf, last_mouse, tap_key,
                   obsvars, handle_pc, helpers, typed, flushed, buf_at_stop>>

\* mutant: SHIFT counts as a modifier that keeps a key out of the text buffer
KeyArm_ShiftIsModifier(keycode, mods) ==
    IF has_cmd(mods) /\ ~has_ctrl(mods)
    THEN (IF keycode = KEY_C THEN "copy"
          ELSE IF keycode = KEY_X THEN "cut"
          ELSE IF keycode = KEY_V THEN "paste"
          ELSE "key")
    ELSE IF any_modifier(mods) \/ Bit(mods, SHIFT) THEN "key"
    ELSE IF IsSome(keycode_to_char(keycode, mods)) THEN "text"
    ELSE "key"

\* mutant: OPT counts as a modifier that keeps a key out of the text buffer
KeyArm_OptIsModifier(keycode, mods) ==
    IF has_cmd(mods) /\ ~has_ctrl(mods)
    THEN (IF keycode = KEY_C THEN "copy"
          ELSE IF keycode = KEY_X THEN "cut"
          ELSE IF keycode = KEY_V THEN "paste"
          ELSE "key")
    ELSE IF any_modifier(mods) \/ Bit(mods, OPT) THEN "key"
    ELSE IF IsSome(keycode_to_char(keycode, mods)) THEN "text"
    ELSE "key"

\* the arm of the KEY_DOWN branch a key-down takes
KeyArm(keycode, mods) ==
    IF has_cmd(mods) /\ ~has_ctrl(mods)
    THEN (IF keycode = KEY_C THEN "copy"
          ELSE IF keycode = KEY_X THEN "cut"
          ELSE IF keycode = KEY_V THEN "paste"
          ELSE "key")
    ELSE IF any_modifier(mods) THEN "key"
    ELSE IF IsSome(keycode_to_char(keycode, mods)) THEN "text"
    ELSE "key"

\* history: the claim-side notion of a printable key-down
Printable(keycode, mods) ==
    ~Bit(mods, CMD) /\ ~Bit(mods, CTRL) /\ keycode \in DOMAIN KeyTable

\* KEY_DOWN
TapKey(keycode, flags) ==
    LET mods == from_cg_flags(flags)
        arm == KeyArm(keycode, mods)
        key == Ev(now, "k", "tap", [k |-> keycode, m |-> mods])
    IN
    /\ Callback
    /\ typed' = IF Printable(keycode, mods)
                THEN Append(typed, KeyTable[keycode][IF Bit(mods, SHIFT) \/ Bit(mods, CAPS)
                                                     THEN 2 ELSE 1])
                ELSE typed
    /\ CASE arm \in {"copy", "cut"} ->
              /\ helpers' = helpers \cup
                    {[id |-> ninputs + 1, kind |-> "clip",
                      o |-> IF arm = "copy" THEN "c" ELSE "x"]}
              /\ Send(key)
              /\ tap_pc' = "check"
              /\ UNCHANGED <<text_buf, tap_key>>
         [] arm = "paste" ->
              /\ tap_key' = Some([t |-> now, k |-> keycode, m |-> mods])
              /\ NoSend
              /\ tap_pc' = "clip"
              /\ UNCHANGED <<text_buf, helpers>>
         [] arm = "key" ->
              /\ Send(key)
              /\ tap_pc' = "check"
              /\ UNCHANGED <<text_buf, tap_key, helpers>>
         [] arm = "text" ->
              /\ text_buf' = push(text_buf, Unwrap(keycode_to_char(keycode, mods)), now)
              /\ NoSend
              /\ tap_pc' = "check"
              /\ UNCHANGED <<tap_key, helpers>>
    /\ UNCHANGED <<nonrec, cfgvars, now, stop, events, last_mouse, obsvars, handle_pc,
                   flushed, buf_at_stop>>

\* Cmd+V: get_clipboard() runs pbpaste inside the callback; the Paste event
\* carries the t read when the callback started
TapClipboard(content) ==
    /\ tap_pc = "clip"
    /\ IF IsSome(content)
       THEN Send(Ev(Unwrap(tap_key).t, "p", "tap",
                    [o |-> "v", s |-> truncate(Unwrap(content), PREVIEW_MAX)]))
       ELSE NoSend
    /\ tap_pc' = "vkey"
    /\ UNCHANGED <<nonrec, cfgvars, now, stop, events, text_buf, last_mouse, tap_key,
                   obsvars, handle_pc, helpers, ninputs, typed, flushed, buf_at_stop>>

\* Cmd+V: the Key event after the Paste event
TapPasteKey ==
    /\ tap_pc = "vkey"
    /\ Send(Ev(Unwrap(tap_key).t, "k", "tap",
               [k |-> Unwrap(tap_key).k, m |-> Unwrap(tap_key).m]))
    /\ tap_key' = None
    /\ tap_pc' = "check"
    /\ UNCHANGED <<nonrec, cfgvars, now, stop, events, text_buf, last_mouse,
                   obsvars, handle_pc, helpers, ninputs, typed, flushed, buf_at_stop>>

\* run_in_mode returns after 50 ms without an event
TapTimeout ==
    /\ tap_pc = "run"
    /\ tap_pc' = "check"
    /\ NoSend
    /\ UNCHANGED <<nonrec, cfgvars, now, stop, events, text_buf, last_mouse, tap_key,
                   obsvars, handle_pc, helpers, ninputs, typed, flushed, buf_at_stop>>

\* the loop body after run_in_mode (check text buffer timeout), then the
\* loop condition
TapCheck ==
    /\ tap_pc = "check"
    /\ IF should_flush(text_buf, now) /\ IsSome(flush_result(text_buf))
       THEN /\ Send(Ev(FlushTime(text_buf, now), "t", "tap",
                       [s |-> Unwrap(flush_result(text_buf)), why |-> "idle",
                        last |-> Unwrap(text_buf.last_time)]))
            /\ flushed' = flushed \o Unwrap(flush_result(text_buf))
            /\ text_buf' = flush_buf(text_buf)
       ELSE /\ NoSend
            /\ UNCHANGED <<flushed, text_buf>>
    /\ tap_pc' = IF stop THEN "final" ELSE "run"
    /\ UNCHANGED <<nonrec, cfgvars, now, stop, events, last_mouse, tap_key,
                   obsvars, handle_pc, helpers, ninputs, typed, buf_at_stop>>

\* the final flush after the loop, then remove_src and return
TapFinalFlush ==
    /\ tap_pc = "final"
    /\ IF IsSome(flush_result(text_buf))
       THEN /\ Send(Ev(now, "t", "tap",
                       [s |-> Unwrap(flush_result(text_buf)), why |-> "stop",
                        last |-> Unwrap(text_buf.last_time)]))
            /\ flushed' = flushed \o Unwrap(flush_result(text_buf))
       ELSE /\ NoSend
            /\ UNCHANGED flushed
    /\ text_buf' = flush_buf(text_buf)
    /\ tap_pc' = "done"
    /\ UNCHANGED <<nonrec, cfgvars, now, stop, events, last_mouse, tap_key,
                   obsvars, handle_pc, helpers, ninputs, typed, buf_at_stop>>

\* ------------------------------------------------------ helper threads
\* the thread spawned by a click: get_element_context, then try_send
HelperContext(h, ctx) ==
    /\ h \in helpers
    /\ h.kind = "ctx"
    /\ IF IsSome(ctx)
       THEN Send(Ev(now, "x", "helper", [r |-> Unwrap(ctx), click |-> h.click]))
       ELSE NoSend
    /\ helpers' = helpers \ {h}
    /\ UNCHANGED <<nonrec, cfgvars, now, stop, events, tapvars, obsvars, handle_pc,
                   ninputs, typed, flushed, buf_at_stop>>

\* the thread spawned by Cmd+C / Cmd+X: sleep, get_clipboard, then try_send
HelperClipboard(h, content) ==
    /\ h \in helpers
    /\ h.kind = "clip"
    /\ IF IsSome(content)
       THEN Send(Ev(now, "p", "helper",
                    [o |-> h.o, s |-> truncate(Unwrap(content), PREVIEW_MAX)]))
       ELSE NoSend
    /\ helpers' = helpers \ {h}
    /\ UNCHANGED <<nonrec, cfgvars, now, stop, events, tapvars, obsvars, handle_pc,
                   ninputs, typed, flushed, buf_at_stop>>

\* ------------------------------------------------ the app-observer thread
\* mutant: the observer's loop never looks at the stop flag
ObsLoop_IgnoresStop ==
    /\ obs_pc = "loop"
    /\ obs_pc' = "poll"
    /\ NoSend
    /\ UNCHANGED <<nonrec, cfgvars, now, stop, events, tapvars, obs, obs_cur, npolls,
                   handle_pc, helpers, ninputs, typed, flushed, buf_at_stop>>

\* the loop condition of run_app_observer
ObsLoop ==
    /\ obs_pc = "loop"
    /\ obs_pc' = IF stop THEN "done" ELSE "poll"
    /\ NoSend
    /\ UNCHANGED <<nonrec, cfgvars, now, stop, events, tapvars, obs, obs_cur, npolls,
                   handle_pc, helpers, ninputs, typed, flushed, buf_at_stop>>

\* no application is active: nothing but the sleep
ObsPollNone ==
    /\ obs_pc = "poll"
    /\ obs_pc' = "loop"
    /\ NoSend
    /\ UNCHANGED <<nonrec, cfgvars, now, stop, events, tapvars, obs, obs_cur, npolls,
                   handle_pc, helpers, ninputs, typed, flushed, buf_at_stop>>

\* mutant: the app-changed check looks at the name alone
AppChanged_NameOnly(last_app, last_pid, name, pid) == last_app # Some(name)

\* let app_changed = last_app.as_ref() != Some(&name) || last_pid != pid
AppChanged(last_app, last_pid, name, pid) == last_app # Some(name) \/ last_pid # pid

\* the active application is (name, pid): the app-changed check
ObsPollApp(name, pid) ==
    LET app_changed == AppChanged(obs.last_app, obs.last_pid, name, pid) IN
    /\ obs_pc = "poll"
    /\ ninputs + npolls < MaxStimuli
    /\ npolls' = npolls + 1
    /\ IF app_changed
       THEN /\ Send(Ev(now, "a", "obs", [n |-> name, p |-> pid]))
            /\ obs' = [obs EXCEPT !.last_app = Some(name), !.last_pid = pid]
       ELSE /\ NoSend
            /\ UNCHANGED obs
    /\ obs_cur' = Some([name |-> name, pid |-> pid, app_changed |-> app_changed])
    /\ obs_pc' = "window"
    /\ UNCHANGED <<nonrec, cfgvars, now, stop, events, tapvars, handle_pc, helpers,
                   ninputs, typed, flushed, buf_at_stop>>

\* get_focused_window_title returned window_title: the window-changed
\* check, then the 100 ms sleep
ObsPollWindow(window_title) ==
    /\ obs_pc = "window"
    /\ IF window_title # obs.last_window \/ Unwrap(obs_cur).app_changed
       THEN /\ Send(Ev(now, "w", "obs",
                       [a |-> Unwrap(obs_cur).name,
                        w |-> IF IsSome(window_title)
                              THEN Some(truncate(Unwrap(window_title), PREVIEW_MAX))
                              ELSE None]))
            /\ obs' = [obs EXCEPT !.last_window = window_title]
       ELSE /\ NoSend
            /\ UNCHANGED obs
    /\ obs_cur' = None
    /\ obs_pc' = "loop"
    /\ UNCHANGED <<nonrec, cfgvars, now, stop, events, tapvars, npolls, handle_pc, helpers,
                   ninputs, typed, flushed, buf_at_stop>>

\* ------------------------------------------------------ RecordingHandle
\* drain(): one iteration of while let Ok(e) = try_recv() that finds an
\* event (the loop ends when the channel is empty, and drain() may be
\* called again at any time)
Drain ==
    /\ handle_pc = "idle"
    /\ chan # <<>>
    /\ events' = Append(events, Head(chan))
    /\ chan' = Tail(chan)
    /\ UNCHANGED <<nonrec, cfgvars, now, stop, tapvars, obsvars, handle_pc, helpers,
                   ninputs, nsent, histvars>>

\* stop(): the store to the stop flag
StopBegin ==
    /\ handle_pc = "idle"
    /\ stop' = TRUE
    /\ handle_pc' = "stop_drain"
    /\ buf_at_stop' = Some(text_buf.chars)
    /\ NoSend
    /\ UNCHANGED <<nonrec, cfgvars, now, events, tapvars, obsvars, helpers,
                   ninputs, typed, flushed>>

\* stop(): one iteration of while let Ok(e) = try_recv(): push the event, or
\* leave the loop when the channel is empty
StopDrain ==
    /\ handle_pc = "stop_drain"
    /\ IF chan # <<>>
       THEN /\ events' = Append(events, Head(chan))
            /\ chan' = Tail(chan)
            /\ UNCHANGED handle_pc
       ELSE /\ handle_pc' = "join"
            /\ UNCHANGED <<events, chan>>
    /\ UNCHANGED <<nonrec, cfgvars, now, stop, tapvars, obsvars, helpers, ninputs, nsent,
                   histvars>>

\* stop(): join the two threads of the handle, then return
Join ==
    /\ handle_pc = "join"
    /\ tap_pc = "done"
    /\ obs_pc = "done"
    /\ handle_pc' = "stopped"
    /\ NoSend
    /\ UNCHANGED <<nonrec, cfgvars, now, stop, events, tapvars, obsvars, helpers,
                   ninputs, typed, flushed, buf_at_stop>>

\* --------------------------------------------------------------- replay.rs
\* the characters char_to_keycode knows, spelled as in KeyTable
MappedChars ==
    {"a", "A", "b", "B", "c", "C", "d", "D", "e", "E", "f", "F", "g", "G", "h",
     "H", "i", "I", "j", "J", "k", "K", "l", "L", "m", "M", "n", "N", "o", "O",
     "p", "P", "q", "Q", "r", "R", "s", "S", "t", "T", "u", "U", "v", "V", "w",
     "W", "x", "X", "y", "Y", "z", "Z", "0", "rparen", "1", "!", "2", "@", "3",
     "#", "4", "$", "5", "%", "6", "^", "7", "&", "8", "star", "9", "lparen",
     " ", "nl", "tab", "bs", "-", "_", "=", "+", "[", "{", "]", "}",
     "backslash", "|", ";", ":", "quote", "dquote", ",", "<", ".", ">", "/",
     "?", "backtick", "~"}

CharTable ==
    [c \in MappedChars |->
       CASE c = "a" -> <<0, FALSE>> [] c = "A" -> <<0, TRUE>> [] c = "b" -> <<11, FALSE>>
        [] c = "B" -> <<11, TRUE>> [] c = "c" -> <<8, FALSE>> [] c = "C" -> <<8, TRUE>>
        [] c = "d" -> <<2, FALSE>> [] c = "D" -> <<2, TRUE>> [] c = "e" -> <<14, FALSE>>
        [] c = "E" -> <<14, TRUE>> [] c = "f" -> <<3, FALSE>> [] c = "F" -> <<3, TRUE>>
        [] c = "g" -> <<5, FALSE>> [] c = "G" -> <<5, TRUE>> [] c = "h" -> <<4, FALSE>>
        [] c = "H" -> <<4, TRUE>> [] c = "i" -> <<34, FALSE>> [] c = "I" -> <<34, TRUE>>
        [] c = "j" -> <<38, FALSE>> [] c = "J" -> <<38, TRUE>>
        [] c = "k" -> <<40, FALSE>> [] c = "K" -> <<40, TRUE>>
        [] c = "l" -> <<37, FALSE>> [] c = "L" -> <<37, TRUE>>
        [] c = "m" -> <<46, FALSE>> [] c = "M" -> <<46, TRUE>>
        [] c = "n" -> <<45, FALSE>> [] c = "N" -> <<45, TRUE>>
        [] c = "o" -> <<31, FALSE>> [] c = "O" -> <<31, TRUE>>
        [] c = "p" -> <<35, FALSE>> [] c = "P" -> <<35, TRUE>>
        [] c = "q" -> <<12, FALSE>> [] c = "Q" -> <<12, TRUE>>
        [] c = "r" -> <<15, FALSE>> [] c = "R" -> <<15, TRUE>>
        [] c = "s" -> <<1, FALSE>> [] c = "S" -> <<1, TRUE>> [] c = "t" -> <<17, FALSE>>
        [] c = "T" -> <<17, TRUE>> [] c = "u" -> <<32, FALSE>>
        [] c = "U" -> <<32, TRUE>> [] c = "v" -> <<9, FALSE>> [] c = "V" -> <<9, TRUE>>
        [] c = "w" -> <<13, FALSE>> [] c = "W" -> <<13, TRUE>>
        [] c = "x" -> <<7, FALSE>> [] c = "X" -> <<7, TRUE>> [] c = "y" -> <<16, FALSE>>
        [] c = "Y" -> <<16, TRUE>> [] c = "z" -> <<6, FALSE>> [] c = "Z" -> <<6, TRUE>>
        [] c = "0" -> <<29, FALSE>> [] c = "rparen" -> <<29, TRUE>>
        [] c = "1" -> <<18, FALSE>> [] c = "!" -> <<18, TRUE>>
        [] c = "2" -> <<19, FALSE>> [] c = "@" -> <<19, TRUE>>
        [] c = "3" -> <<20, FALSE>> [] c = "#" -> <<20, TRUE>>
        [] c = "4" -> <<21, FALSE>> [] c = "$" -> <<21, TRUE>>
        [] c = "5" -> <<23, FALSE>> [] c = "%" -> <<23, TRUE>>
        [] c = "6" -> <<22, FALSE>> [] c = "^" -> <<22, TRUE>>
        [] c = "7" -> <<26, FALSE>> [] c = "&" -> <<26, TRUE>>
        [] c = "8" -> <<28, FALSE>> [] c = "star" -> <<28, TRUE>>
        [] c = "9" -> <<25, FALSE>> [] c = "lparen" -> <<25, TRUE>>
        [] c = " " -> <<49, FALSE>> [] c = "nl" -> <<36, FALSE>>
        [] c = "tab" -> <<48, FALSE>> [] c = "bs" -> <<51, FALSE>>
        [] c = "-" -> <<27, FALSE>> [] c = "_" -> <<27, TRUE>>
        [] c = "=" -> <<24, FALSE>> [] c = "+" -> <<24, TRUE>>
        [] c = "[" -> <<33, FALSE>> [] c = "{" -> <<33, TRUE>>
        [] c = "]" -> <<30, FALSE>> [] c = "}" -> <<30, TRUE>>
        [] c = "backslash" -> <<42, FALSE>> [] c = "|" -> <<42, TRUE>>
        [] c = ";" -> <<41, FALSE>> [] c = ":" -> <<41, TRUE>>
        [] c = "quote" -> <<39, FALSE>> [] c = "dquote" -> <<39, TRUE>>
        [] c = "," -> <<43, FALSE>> [] c = "<" -> <<43, TRUE>>
        [] c = "." -> <<47, FALSE>> [] c = ">" -> <<47, TRUE>>
        [] c = "/" -> <<44, FALSE>> [] c = "?" -> <<44, TRUE>>
        [] c = "backtick" -> <<50, FALSE>> [] c = "~" -> <<50, TRUE>>]

\* mutant: char_to_keycode has no arm for backspace
char_to_keycode_NoBackspace(c) ==
    IF c \in MappedChars \ {"bs"} THEN Some(CharTable[c]) ELSE None

\* char_to_keycode(c): Option<(keycode, needs_shift)>
char_to_keycode(c) == IF c \in MappedChars THEN Some(CharTable[c]) ELSE None

\* str::len() counts the bytes of the UTF-8 encoding; "e_acute" stands for a
\* two-byte character, every other character of the model is ASCII
Utf8Len(c) == IF c = "e_acute" THEN 2 ELSE 1

RECURSIVE StrLen(_)
StrLen(s) == IF s = <<>> THEN 0 ELSE Utf8Len(Head(s)) + StrLen(Tail(s))

\* the flags Replayer::key (macOS) builds from the modifier byte
ToFlags(modifiers) ==
    (IF Bit(modifiers, SHIFT) THEN CG_SHIFT ELSE 0)
  + (IF Bit(modifiers, CTRL) THEN CG_CTRL ELSE 0)
  + (IF Bit(modifiers, OPT) THEN CG_OPT ELSE 0)
  + (IF Bit(modifiers, CMD) THEN CG_CMD ELSE 0)

\* An input handed to the OS (CGEventPost, SetCursorPos, SendInput).  io is
\* its kind; btn the mouse button, code the key code, ch the character of a
\* unicode input, (x, y) the position, v and h the vertical and horizontal
\* wheel amounts, flags the event flags.  Fields an input does not have are
\* "" or 0.
In(io, btn, code, ch, x, y, v, h, flags) ==
    [io |-> io, btn |-> btn, code |-> code, ch |-> ch, x |-> x, y |-> y,
     v |-> v, h |-> h, flags |-> flags]

RECURSIVE Repeat(_, _)
Repeat(s, n) == IF n = 0 THEN <<>> ELSE s \o Repeat(s, n - 1)

Abs(n) == IF n < 0 THEN -n ELSE n

\* mutant: a click is one pair whatever the recorded count
ClickCount_One(clicks) == 1

\* clicks.max(1)
ClickCount(clicks) == IF clicks > 1 THEN clicks ELSE 1

\* the match on button (both platforms: 0 left, 1 right, otherwise middle)
MouseButton(button) ==
    IF button = 0 THEN "Left" ELSE IF button = 1 THEN "Right" ELSE "Center"

\* macOS: Replayer::click, move_to, scroll, key, type_text.  Creating a
\* CGEvent is taken to succeed.
mac_move_to(x, y) == <<In("mouse_moved", "Left", 0, "", x, y, 0, 0, 0)>>

mac_click(x, y, button, clicks) ==
    Repeat(<<In("mouse_down", MouseButton(button), 0, "", x, y, 0, 0, 0),
             In("mouse_up", MouseButton(button), 0, "", x, y, 0, 0, 0)>>,
           ClickCount(clicks))

mac_scroll(x, y, dx, dy) ==
    mac_move_to(x, y) \o <<In("wheel", "", 0, "", 0, 0, Abs(dy), Abs(dx), 0)>>

mac_key(keycode, modifiers) ==
    <<In("key_down", "", keycode, "", 0, 0, 0, 0, ToFlags(modifiers)),
      In("key_up", "", keycode, "", 0, 0, 0, 0, ToFlags(modifiers))>>

RECURSIVE mac_type_text(_)
mac_type_text(text) ==
    IF text = <<>> THEN <<>>
    ELSE (IF IsSome(char_to_keycode(Head(text)))
          THEN mac_key(Unwrap(char_to_keycode(Head(text)))[1],
                       IF Unwrap(char_to_keycode(Head(text)))[2] THEN SHIFT ELSE 0)
          ELSE <<>>)
         \o mac_type_text(Tail(text))

\* Windows: Replayer::click, move_to, scroll, key, type_text
WHEEL_DELTA == 120

win_move_to(x, y) == <<In("set_cursor", "", 0, "", x, y, 0, 0, 0)>>

win_click(x, y, button, clicks) ==
    win_move_to(x, y)
    \o Repeat(<<In("mouse_down", MouseButton(button), 0, "", 0, 0, 0, 0, 0),
                In("mouse_up", MouseButton(button), 0, "", 0, 0, 0, 0, 0)>>,
              ClickCount(clicks))

win_scroll(x, y, dy) ==
    win_move_to(x, y) \o <<In("wheel", "", 0, "", 0, 0, dy * WHEEL_DELTA, 0, 0)>>

win_key(keycode) ==
    <<In("key_down", "", keycode, "", 0, 0, 0, 0, 0),
      In("key_up", "", keycode, "", 0, 0, 0, 0, 0)>>

RECURSIVE win_type_text(_)
win_type_text(text) ==
    IF text = <<>> THEN <<>>
    ELSE <<In("unicode_down", "", 0, Head(text), 0, 0, 0, 0, 0),
           In("unicode_up", "", 0, Head(text), 0, 0, 0, 0, 0)>>
         \o win_type_text(Tail(text))

\* the inputs one event synthesises: the match arm of play() for the build
Synth(ev) ==
    IF platform = "macos"
    THEN CASE ev.e = "c" -> mac_click(ev.d.x, ev.d.y, ev.d.b, ev.d.n)
           [] ev.e = "m" -> mac_move_to(ev.d.x, ev.d.y)
           [] ev.e = "s" -> mac_scroll(ev.d.x, ev.d.y, ev.d.dx, ev.d.dy)
           [] ev.e = "k" -> mac_key(ev.d.k, ev.d.m)
           [] ev.e = "t" -> mac_type_text(ev.d.s)
           [] OTHER -> <<>>
    ELSE CASE ev.e = "c" -> win_click(ev.d.x, ev.d.y, ev.d.b, ev.d.n)
           [] ev.e = "m" -> win_move_to(ev.d.x, ev.d.y)
           [] ev.e = "s" -> win_scroll(ev.d.x, ev.d.y, ev.d.dy)
           [] ev.e = "k" -> win_key(ev.d.k)
           [] ev.e = "t" -> win_type_text(ev.d.s)
           [] OTHER -> <<>>

\* the counter the match arm bumps
Count(st, ev) ==
    CASE ev.e = "c" -> [st EXCEPT !.clicks = @ + 1]
      [] ev.e = "m" -> [st EXCEPT !.moves = @ + 1]
      [] ev.e = "s" -> [st EXCEPT !.scrolls = @ + 1]
      [] ev.e = "k" -> [st EXCEPT !.keys = @ + 1]
      [] ev.e = "t" -> [st EXCEPT !.text_chars = @ + StrLen(ev.d.s)]
      [] OTHER -> st

\* ((event.t - last_t) as f64 / self.speed) as u64, slept when positive
DelayMs(t, last, sp) == IF t > last THEN ((t - last) * 4) \div sp ELSE 0

\* Replayer::play is called with the workflow: its locals
Play ==
    /\ play_pc = "idle"
    /\ play_wf # <<>>
    /\ play_pc' = "run"
    /\ play_i' = 0
    /\ last_t' = 0
    /\ stats' = [clicks |-> 0, moves |-> 0, scrolls |-> 0, keys |-> 0, text_chars |-> 0]
    /\ UNCHANGED <<nonreplay, platform, speed, play_wf, slept, posted>>

\* one iteration of the for loop: the wait, then the match arm
PlayEvent ==
    /\ play_pc = "run"
    /\ play_i < Len(play_wf)
    /\ LET ev == play_wf[play_i + 1] IN
         /\ slept' = slept + DelayMs(ev.t, last_t, speed)
         /\ last_t' = ev.t
         /\ posted' = posted \o Synth(ev)
         /\ stats' = Count(stats, ev)
    /\ play_i' = play_i + 1
    /\ UNCHANGED <<nonreplay, platform, speed, play_wf, play_pc>>

\* Windows: SetCursorPos fails, or SendInput takes fewer inputs than it was
\* given: the first k inputs of the event are out and play() returns the Err
PlayEventFails(k) ==
    /\ play_pc = "run"
    /\ platform = "windows"
    /\ play_i < Len(play_wf)
    /\ LET ev == play_wf[play_i + 1] IN
         /\ k < Len(Synth(ev))
         /\ slept' = slept + DelayMs(ev.t, last_t, speed)
         /\ last_t' = ev.t
         /\ posted' = posted \o SubSeq(Synth(ev), 1, k)
    /\ play_pc' = "failed"
    /\ UNCHANGED <<nonreplay, platform, speed, play_wf, play_i, stats>>

\* the loop is over: Ok(stats)
PlayReturn ==
    /\ play_pc = "run"
    /\ play_i = Len(play_wf)
    /\ play_pc' = "done"
    /\ UNCHANGED <<nonreplay, platform, speed, play_wf, play_i, last_t, stats,
                   slept, posted>>

\* -------------------------------------------------------------- storage.rs
\* A line of a file: text (a sequence of characters) or the JSON object that
\* serde_json wrote.  serde_json is taken to write and read a JSON value
\* faithfully; what the storage formats itself is modelled character by
\* character.  The fixed pieces of the metadata line are the characters
\* "meta_open" (the text up to and with the quote that opens the name),
\* "meta_mid" (from the quote that closes the name to the colon of events);
\* the characters of a name are "a", "n", "dquote", "backslash" and "nl".
TextLine(chars) == [k |-> "text", v |-> chars]
JsonLine(obj) == [k |-> "json", v |-> obj]

\* Result<T>
Ok(x) == [ok |-> TRUE, v |-> x]
Err == [ok |-> FALSE, v |-> <<>>]

\* c.is_alphanumeric() || c == '-' || c == '_'
KeptInFileName(c) == c \in {"a", "n", "-", "_"}

\* sanitize(s)
sanitize(s) == [i \in 1..Len(s) |-> IF KeptInFileName(s[i]) THEN s[i] ELSE "_"]

\* the lines a reader finds in what writeln! wrote for chars: the text is cut
\* at every newline
RECURSIVE SplitLines(_, _)
SplitLines(chars, cur) ==
    IF chars = <<>> THEN <<TextLine(cur)>>
    ELSE IF Head(chars) = "nl" THEN <<TextLine(cur)>> \o SplitLines(Tail(chars), <<>>)
    ELSE SplitLines(Tail(chars), Append(cur, Head(chars)))

\* the variants of EventData: their tag, their fields, their Option fields
Tags == {"c", "m", "s", "k", "t", "a", "w", "p", "x"}

Required(tag) ==
    CASE tag = "c" -> {"x", "y", "b", "n", "m"}
      [] tag = "m" -> {"x", "y"}
      [] tag = "s" -> {"x", "y", "dx", "dy"}
      [] tag = "k" -> {"k", "m"}
      [] tag = "t" -> {"s"}
      [] tag = "a" -> {"n", "p"}
      [] tag = "w" -> {"a"}
      [] tag = "p" -> {"o", "s"}
      [] tag = "x" -> {"r"}

Optional(tag) ==
    CASE tag = "w" -> {"w"}
      [] tag = "x" -> {"n", "v"}
      [] OTHER -> {}

\* Serialize for Event: t and the flattened, internally tagged data; a None
\* field is left out (skip_serializing_if)
to_json(ev) ==
    [f \in {"t", "e"} \cup {g \in DOMAIN ev.d : g \in Required(ev.e) \/ IsSome(ev.d[g])} |->
        IF f = "t" THEN ev.t
        ELSE IF f = "e" THEN ev.e
        ELSE IF f \in Required(ev.e) THEN ev.d[f]
        ELSE Unwrap(ev.d[f])]

\* Deserialize for Event: an unknown tag or a missing field is an error, a
\* missing Option field is None, other keys are ignored
from_json(obj) ==
    IF ~({"t", "e"} \subseteq DOMAIN obj) THEN Err
    ELSE IF obj.e \notin Tags THEN Err
    ELSE IF ~(Required(obj.e) \subseteq DOMAIN obj) THEN Err
    ELSE Ok([t |-> obj.t, e |-> obj.e,
             d |-> [f \in Required(obj.e) \cup Optional(obj.e) |->
                      IF f \in Required(obj.e) THEN obj[f]
                      ELSE IF f \in DOMAIN obj THEN Some(obj[f]) ELSE None]])

\* the metadata line of save(): the name goes into the text as it is
MetaText(name, count) == <<"meta_open">> \o name \o <<"meta_mid", ToString(count), "}">>

\* serde_json reading the string that starts behind meta_open: a quote ends
\* it, a backslash escapes the next character, and what follows the string
\* must be the rest of the object
RECURSIVE ScanName(_, _, _)
ScanName(s, i, acc) ==
    IF i > Len(s) THEN Err
    ELSE IF s[i] = "meta_mid"
         THEN (IF Len(s) = i + 2 /\ s[i + 2] = "}" THEN Ok(acc) ELSE Err)
    ELSE IF s[i] = "dquote" THEN Err
    ELSE IF s[i] = "backslash"
         THEN (IF i + 1 > Len(s) THEN Err
               ELSE IF s[i + 1] \in {"dquote", "backslash"}
                    THEN ScanName(s, i + 2, Append(acc, s[i + 1]))
               ELSE IF s[i + 1] = "n" THEN ScanName(s, i + 2, Append(acc, "nl"))
               ELSE Err)
    ELSE ScanName(s, i + 1, Append(acc, s[i]))

\* serde_json::from_str::<Value>(&meta_line), then meta["name"].as_str()
\* .unwrap_or("unknown")
MetaName(line) ==
    IF line.k = "json"
    THEN Ok(IF "name" \in DOMAIN line.v THEN line.v.name ELSE <<"unknown">>)
    ELSE IF line.v # <<>> /\ line.v[1] = "meta_open" THEN ScanName(line.v, 2, <<>>)
    ELSE Err

\* the loop over the remaining lines: empty lines are skipped, the first
\* line that is no Event ends load() with its error
RECURSIVE LoadEvents(_, _)
LoadEvents(lines, acc) ==
    IF lines = <<>> THEN Ok(acc)
    ELSE IF Head(lines).k = "text"
         THEN (IF Head(lines).v = <<>> THEN LoadEvents(Tail(lines), acc) ELSE Err)
    ELSE IF from_json(Head(lines).v).ok
         THEN LoadEvents(Tail(lines), Append(acc, from_json(Head(lines).v).v))
    ELSE Err

\* the file name of save(): the sanitized name and the second of the clock
\* (every save of a behaviour falls into the same second)
FileName(name) == <<sanitize(name), "ts">>

\* WorkflowStorage::save(&workflow): File::create replaces a file of the
\* same name
Save ==
    /\ IsSome(store_wf)
    /\ saved = None
    /\ LET wf == Unwrap(store_wf)
           file == [name |-> FileName(wf.name),
                    lines |-> SplitLines(MetaText(wf.name, Len(wf.events)), <<>>)
                              \o [i \in 1..Len(wf.events) |->
                                     JsonLine(to_json(wf.events[i]))]]
       IN /\ files' = SelectSeq(files, LAMBDA f : f.name # file.name) \o <<file>>
          /\ saved' = Some([wf |-> wf, path |-> file.name])
    /\ UNCHANGED <<nonstore, store_wf, loaded>>

\* WorkflowStorage::load
Load(filename) ==
    /\ loaded = None
    /\ \E i \in 1..Len(files) :
         /\ files[i].name = filename
         /\ loaded' =
              Some(IF files[i].lines = <<>> THEN Err
                   ELSE IF ~MetaName(Head(files[i].lines)).ok THEN Err
                   ELSE IF ~LoadEvents(Tail(files[i].lines), <<>>).ok THEN Err
                   ELSE Ok([name |-> MetaName(Head(files[i].lines)).v,
                            events |-> LoadEvents(Tail(files[i].lines), <<>>).v]))
    /\ UNCHANGED <<nonstore, files, store_wf, saved>>

\* ------------------------------------------------------------- selector.rs
\* Strings are sequences of characters.
UpperLetters == <<"A", "B", "C", "D", "E", "F", "G", "H", "I", "J", "K", "L", "M",
                  "N", "O", "P", "Q", "R", "S", "T", "U", "V", "W", "X", "Y", "Z">>
LowerLetters == <<"a", "b", "c", "d", "e", "f", "g", "h", "i", "j", "k", "l", "m",
                  "n", "o", "p", "q", "r", "s", "t", "u", "v", "w", "x", "y", "z">>

\* mutant: the attribute name is compared as it was written
to_lowercase_Identity(s) == s

\* str::to_lowercase
to_lowercase(s) ==
    [i \in 1..Len(s) |->
        IF \E j \in 1..26 : UpperLetters[j] = s[i]
        THEN LowerLetters[CHOOSE j \in 1..26 : UpperLetters[j] = s[i]]
        ELSE s[i]]

is_whitespace(c) == c \in {" ", "tab", "nl"}

\* str::trim
RECURSIVE trim_start(_)
trim_start(s) ==
    IF s # <<>> /\ is_whitespace(Head(s)) THEN trim_start(Tail(s)) ELSE s

RECURSIVE trim_end(_)
trim_end(s) ==
    IF s # <<>> /\ is_whitespace(s[Len(s)]) THEN trim_end(SubSeq(s, 1, Len(s) - 1)) ELSE s

trim(s) == trim_end(trim_start(s))

starts_with(s, pat) == Len(s) >= Len(pat) /\ SubSeq(s, 1, Len(pat)) = pat

\* str::split(pat): the pieces between the matches of pat, found from the
\* left and not overlapping
RECURSIVE split(_, _, _)
split(s, pat, cur) ==
    IF s = <<>> THEN <<cur>>
    ELSE IF starts_with(s, pat)
         THEN <<cur>> \o split(SubSeq(s, Len(pat) + 1, Len(s)), pat, <<>>)
    ELSE split(Tail(s), pat, Append(cur, Head(s)))

\* str::split_once(':'): None, or what is before and behind the first ':'
split_once(s) ==
    IF \E i \in 1..Len(s) : s[i] = ":"
    THEN LET i == CHOOSE k \in 1..Len(s) : s[k] = ":" /\ \A j \in 1..(k - 1) : s[j] # ":"
         IN Some(<<SubSeq(s, 1, i - 1), SubSeq(s, i + 1, Len(s))>>)
    ELSE None

AND == <<" ", "A", "N", "D", " ">>

\* Err(Error::selector_invalid(..))
SelectorInvalid == [ok |-> FALSE, v |-> "SelectorInvalid"]

\* the match on attr.to_lowercase(): the Attribute, or None for the catch-all
AttributeNamed(a) ==
    CASE a = <<"r", "o", "l", "e">> -> Some("Role")
      [] a = <<"n", "a", "m", "e">> -> Some("Name")
      [] a = <<"t", "i", "t", "l", "e">> -> Some("Title")
      [] a = <<"v", "a", "l", "u", "e">> -> Some("Value")
      [] a = <<"d", "e", "s", "c">> -> Some("Description")
      [] a = <<"d", "e", "s", "c", "r", "i", "p", "t", "i", "o", "n">> -> Some("Description")
      [] a = <<"i", "n", "d", "e", "x">> -> Some("Index")
      [] a = <<"i", "d", "x">> -> Some("Index")
      [] OTHER -> None

\* Condition::parse
Condition_parse(s) ==
    IF ~IsSome(split_once(s)) THEN SelectorInvalid
    ELSE LET attr_str == Unwrap(split_once(s))[1]
             rest == Unwrap(split_once(s))[2]
             contains == attr_str # <<>> /\ attr_str[Len(attr_str)] = "~"
             attr == IF contains THEN SubSeq(attr_str, 1, Len(attr_str) - 1) ELSE attr_str
             found == AttributeNamed(to_lowercase(attr))
         IN IF IsSome(found)
            THEN Ok([attr |-> Unwrap(found),
                     op |-> IF contains THEN "Contains" ELSE "Equals",
                     value |-> rest])
            ELSE SelectorInvalid

\* the loop of Selector::parse over the parts: the first part that is no
\* condition ends it with its error
RECURSIVE parse_parts(_, _)
parse_parts(parts, conditions) ==
    IF parts = <<>> THEN Ok([conditions |-> conditions])
    ELSE IF Condition_parse(trim(Head(parts))).ok
         THEN parse_parts(Tail(parts),
                          Append(conditions, Condition_parse(trim(Head(parts))).v))
    ELSE Condition_parse(trim(Head(parts)))

\* Selector::parse
Selector_parse(s) ==
    IF trim(s) = <<>> THEN SelectorInvalid
    ELSE parse_parts(split(trim(s), AND, <<>>), <<>>)

\* a call of Selector::parse
Parse ==
    /\ sel_out = None
    /\ sel_out' = Some(Selector_parse(sel_in))
    /\ UNCHANGED <<nonsel, sel_in, sel_back>>

\* {:?} of an Attribute: the name of the variant
Attribute_debug(attr) ==
    CASE attr = "Role" -> <<"R", "o", "l", "e">>
      [] attr = "Name" -> <<"N", "a", "m", "e">>
      [] attr = "Title" -> <<"T", "i", "t", "l", "e">>
      [] attr = "Value" -> <<"V", "a", "l", "u", "e">>
      [] attr = "Description" -> <<"D", "e", "s", "c", "r", "i", "p", "t", "i", "o", "n">>
      [] attr = "Index" -> <<"I", "n", "d", "e", "x">>

\* Display for Condition
Condition_to_string(c) ==
    Attribute_debug(c.attr)
        \o (IF c.op = "Equals" THEN <<":">> ELSE <<"~", ":">>)
        \o c.value

\* [String]::join(" AND ")
RECURSIVE join(_, _)
join(parts, sep) ==
    IF parts = <<>> THEN <<>>
    ELSE IF Len(parts) = 1 THEN Head(parts)
    ELSE Head(parts) \o sep \o join(Tail(parts), sep)

\* Display for Selector
Selector_to_string(sel) ==
    join([i \in 1..Len(sel.conditions) |-> Condition_to_string(sel.conditions[i])], AND)

\* Selector::parse(&selector.to_string()) on the selector that was parsed
Reparse ==
    /\ IsSome(sel_out)
    /\ Unwrap(sel_out).ok
    /\ sel_back = None
    /\ sel_back' = Some(Selector_parse(Selector_to_string(Unwrap(sel_out).v)))
    /\ UNCHANGED <<nonsel, sel_in, sel_out>>

\* str::contains
contains(s, pat) ==
    \E i \in 0..(Len(s) - Len(pat)) : SubSeq(s, i + 1, i + Len(pat)) = pat

\* mutant: an absent attribute is matched like an empty one
Condition_matches_AbsentIsEmpty(cond, role, name, title, value, desc) ==
    LET target == CASE cond.attr = "Role" -> role
                    [] cond.attr = "Name" -> name
                    [] cond.attr = "Title" -> title
                    [] cond.attr = "Value" -> value
                    [] cond.attr = "Description" -> desc
                    [] OTHER -> None
        t == IF IsSome(target) THEN Unwrap(target) ELSE <<>>
    IN /\ cond.attr # "Index"
       /\ IF cond.op = "Equals" THEN t = cond.value
          ELSE contains(to_lowercase(t), to_lowercase(cond.value))

\* Condition::matches
Condition_matches(cond, role, name, title, value, desc) ==
    IF cond.attr = "Index" THEN FALSE
    ELSE LET target == CASE cond.attr = "Role" -> role
                         [] cond.attr = "Name" -> name
                         [] cond.attr = "Title" -> title
                         [] cond.attr = "Value" -> value
                         [] cond.attr = "Description" -> desc
         IN IF ~IsSome(target) THEN FALSE
            ELSE IF cond.op = "Equals" THEN Unwrap(target) = cond.value
            ELSE contains(to_lowercase(Unwrap(target)), to_lowercase(cond.value))

\* ------------------------------------------------------------- locator.rs
\* An element of the accessibility tree is the record of what the getters of
\* accessibility.rs return for it: role, role_desc, title, value, desc, each
\* an Option<String>.
get_role(element) == element.role
get_role_desc(element) == element.role_desc
get_title(element) == element.title
get_value(element) == element.value
get_description(element) == element.desc

\* Locator::matches: every condition but the index ones has to match
Locator_matches(conditions, element) ==
    \A i \in 1..Len(conditions) :
        \/ conditions[i].attr = "Index"
        \/ Condition_matches(conditions[i], get_role(element), get_role_desc(element),
                             get_title(element), get_value(element),
                             get_description(element))

\* a call of Condition::matches with the attributes Locator::matches reads
\* from the element, and the call of Locator::matches with that condition
\* as selector
Match ==
    /\ IsSome(match_in)
    /\ match_out = None
    /\ LET cond == Unwrap(match_in).cond
           element == Unwrap(match_in).element
       IN match_out' = Some([cond |-> Condition_matches(cond, get_role(element),
                                         get_role_desc(element), get_title(element),
                                         get_value(element), get_description(element)),
                             locator |-> Locator_matches(<<cond>>, element)])
    /\ UNCHANGED <<noncore, match_in, ui, locvars, waitvars, deskvars>>

\* The accessibility tree: elements are numbered 1..Len(tree.parent), 1 is
\* the root, parent[i] is the parent of i, els[i] holds the attributes of i,
\* and the native order of the children of an element is that of their
\* numbers, or the reverse of it when rev is set.
RECURSIVE Ascending(_)
Ascending(S) ==
    IF S = {} THEN <<>>
    ELSE LET m == CHOOSE x \in S : \A y \in S : x <= y
         IN <<m>> \o Ascending(S \ {m})

Reverse(q) == [i \in 1..Len(q) |-> q[Len(q) + 1 - i]]

\* accessibility::get_children
get_children(tree, element) ==
    LET cs == Ascending({i \in 1..Len(tree.parent) : tree.parent[i] = element})
    IN IF tree.rev THEN Reverse(cs) ELSE cs

\* UIElement::new and UIElement::with_index
UIElement_new(inner) == [inner |-> inner, index |-> None]
with_index(e, index) == [e EXCEPT !.index = Some(index)]

Unknown == <<"U", "n", "k", "n", "o", "w", "n">>

\* UIElement::info (bounds is always None)
info(tree, e) ==
    LET el == tree.els[e.inner] IN
    [index |-> e.index,
     role |-> IF IsSome(get_role(el)) THEN Unwrap(get_role(el)) ELSE Unknown,
     name |-> get_role_desc(el),
     title |-> get_title(el),
     value |-> get_value(el),
     description |-> get_description(el)]

\* Locator::find_recursive, and its loop over the children
RECURSIVE find_recursive(_, _, _, _, _)
RECURSIVE find_children(_, _, _, _, _)
find_recursive(l, tree, element, depth, results) ==
    IF depth > l.max_depth THEN results
    ELSE find_children(l, tree, get_children(tree, element), depth + 1,
                       IF Locator_matches(l.selector, tree.els[element])
                       THEN Append(results, UIElement_new(element))
                       ELSE results)

find_children(l, tree, children, depth, results) ==
    IF children = <<>> THEN results
    ELSE find_children(l, tree, Tail(children), depth,
                       find_recursive(l, tree, Head(children), depth, results))

\* mutant: the indices are counted from one
enumerate_FromOne(results) == [i \in 1..Len(results) |-> with_index(results[i], i)]

\* results.into_iter().enumerate().map(|(i, e)| e.with_index(i))
enumerate(results) == [i \in 1..Len(results) |-> with_index(results[i], i - 1)]

\* Locator::find_all
find_all(l, tree) == Ok(enumerate(find_recursive(l, tree, 1, 0, <<>>)))

Error(code, suggestions, context) ==
    [ok |-> FALSE, v |-> [code |-> code, suggestions |-> suggestions, context |-> context]]

\* mutant: of several matches the first one is returned
find_First(l, tree) ==
    LET elements == find_all(l, tree).v IN
    IF elements = <<>> THEN Error("ElementNotFound", <<>>, None)
    ELSE Ok(elements[1])

\* Locator::find
find(l, tree) ==
    LET elements == find_all(l, tree).v IN
    IF elements = <<>> THEN Error("ElementNotFound", <<>>, None)
    ELSE IF Len(elements) > 1
         THEN Error("MultipleMatches",
                    <<<<"Add more conditions to narrow the match">>,
                      <<"Use index:0 through index:",
                        ToString(Len(elements) - 1), " to pick one">>>>,
                    Some([matches |-> [i \in 1..Len(elements) |-> info(tree, elements[i])]]))
    ELSE Ok(elements[1])

\* a call of Locator::find_all
FindAll ==
    /\ IsSome(loc)
    /\ find_all_out = None
    /\ find_all_out' = Some(find_all(Unwrap(loc), Unwrap(ui)))
    /\ UNCHANGED <<noncore, matchvars, ui, loc, find_out, click_out, waitvars, deskvars>>

\* a call of Locator::find
Find ==
    /\ IsSome(loc)
    /\ find_out = None
    /\ find_out' = Some(find(Unwrap(loc), Unwrap(ui)))
    /\ UNCHANGED <<noncore, matchvars, ui, loc, find_all_out, click_out, waitvars, deskvars>>

\* UIElement::click: the press action of the element succeeds or fails
click(tree, e, press_ok) ==
    IF ~press_ok THEN Error("ActionFailed", <<>>, None)
    ELSE Ok([success |-> TRUE, action |-> "click", element |-> Some(info(tree, e))])

\* a call of click() on the element find() returned
Click ==
    /\ IsSome(find_out)
    /\ Unwrap(find_out).ok
    /\ click_out = None
    /\ \E press_ok \in BOOLEAN :
          click_out' = Some([press_ok |-> press_ok,
                            out |-> click(Unwrap(ui), Unwrap(find_out).v, press_ok)])
    /\ UNCHANGED <<noncore, matchvars, ui, loc, find_all_out, find_out, waitvars, deskvars>>

\* Locator::exists
exists(l, tree) == IF find_all(l, tree).ok THEN find_all(l, tree).v # <<>> ELSE FALSE

\* the sleep between two polls
POLL_MS == 100
\* the grain of the clock of the waiter
TickMs == 50

\* Time passes while a waiter runs: the walks of find() and exists() take
\* time, and a sleep may last longer than asked.
WaitTick ==
    /\ w_fn # "none"
    /\ w_pc # "done"
    /\ elapsed < MaxWaitTicks * TickMs
    /\ elapsed' = elapsed + TickMs
    /\ UNCHANGED <<noncore, matchvars, deskvars, ui, locvars, w_fn, w_pc, w_finds, w_out, ui_changed>>

\* The application changes an element: a button becomes a group or a group
\* a button.
UiChange(e) ==
    /\ IsSome(ui)
    /\ e \in 1..Len(Unwrap(ui).parent)
    /\ LET tree == Unwrap(ui)
           other == IF tree.els[e].role = Some(<<"B">>) THEN Some(<<"G">>) ELSE Some(<<"B">>)
       IN ui' = Some([tree EXCEPT !.els[e].role = other])
    /\ ui_changed' = TRUE
    /\ UNCHANGED <<noncore, matchvars, deskvars, locvars, w_fn, w_pc, elapsed, w_finds, w_out>>

\* wait(): start = Instant::now()
WaitCall ==
    /\ IsSome(loc)
    /\ w_fn = "none"
    /\ w_out.wait = None
    /\ w_fn' = "wait"
    /\ w_pc' = "find"
    /\ elapsed' = 0
    /\ w_finds' = <<>>
    /\ UNCHANGED <<noncore, matchvars, deskvars, ui, locvars, w_out, ui_changed>>

\* mutant: wait() returns the error of find() as it is (self.find()?)
WaitFind_Propagates ==
    /\ w_fn = "wait"
    /\ w_pc = "find"
    /\ LET r == find(Unwrap(loc), Unwrap(ui)) IN
          /\ w_finds' = Append(w_finds, r.ok)
          /\ w_out' = [w_out EXCEPT !.wait =
                          Some([ok |-> r.ok, v |-> IF r.ok THEN r.v ELSE r.v.code,
                                elapsed |-> elapsed])]
          /\ w_pc' = "done"
    /\ UNCHANGED <<noncore, matchvars, deskvars, ui, locvars, w_fn, elapsed, ui_changed>>

\* wait(): match self.find(), Ok(e) => return Ok(e)
WaitFind ==
    /\ w_fn = "wait"
    /\ w_pc = "find"
    /\ LET r == find(Unwrap(loc), Unwrap(ui)) IN
          /\ w_finds' = Append(w_finds, r.ok)
          /\ IF r.ok
             THEN /\ w_out' = [w_out EXCEPT !.wait =
                                  Some([ok |-> TRUE, v |-> r.v, elapsed |-> elapsed])]
                  /\ w_pc' = "done"
             ELSE /\ w_pc' = "check"
                  /\ UNCHANGED w_out
    /\ UNCHANGED <<noncore, matchvars, deskvars, ui, locvars, w_fn, elapsed, ui_changed>>

\* wait(): Err(_) if start.elapsed() < timeout => sleep, Err(_) => Timeout
WaitCheck ==
    /\ w_fn = "wait"
    /\ w_pc = "check"
    /\ IF elapsed < Unwrap(loc).timeout_ms
       THEN /\ w_pc' = "sleep"
            /\ UNCHANGED w_out
       ELSE /\ w_out' = [w_out EXCEPT !.wait =
                            Some([ok |-> FALSE, v |-> "Timeout", elapsed |-> elapsed])]
            /\ w_pc' = "done"
    /\ UNCHANGED <<noncore, matchvars, deskvars, ui, locvars, w_fn, elapsed, w_finds, ui_changed>>

\* wait(): std::thread::sleep(Duration::from_millis(100))
WaitSleep ==
    /\ w_fn = "wait"
    /\ w_pc = "sleep"
    /\ elapsed' = elapsed + POLL_MS
    /\ w_pc' = "find"
    /\ UNCHANGED <<noncore, matchvars, deskvars, ui, locvars, w_fn, w_finds, w_out, ui_changed>>

\* wait_gone(): start = Instant::now()
GoneCall ==
    /\ IsSome(loc)
    /\ w_fn = "none"
    /\ w_out.wait_gone = None
    /\ w_fn' = "wait_gone"
    /\ w_pc' = "find"
    /\ elapsed' = 0
    /\ w_finds' = <<>>
    /\ UNCHANGED <<noncore, matchvars, deskvars, ui, locvars, w_out, ui_changed>>

\* wait_gone(): if !self.exists() { return Ok(()) }
GoneExists ==
    /\ w_fn = "wait_gone"
    /\ w_pc = "find"
    /\ IF ~exists(Unwrap(loc), Unwrap(ui))
       THEN /\ w_out' = [w_out EXCEPT !.wait_gone =
                            Some([ok |-> TRUE, v |-> "unit", elapsed |-> elapsed])]
            /\ w_pc' = "done"
       ELSE /\ w_pc' = "check"
            /\ UNCHANGED w_out
    /\ UNCHANGED <<noncore, matchvars, deskvars, ui, locvars, w_fn, elapsed, w_finds, ui_changed>>

\* wait_gone(): if start.elapsed() >= timeout { return Err(Timeout) }
GoneCheck ==
    /\ w_fn = "wait_gone"
    /\ w_pc = "check"
    /\ IF elapsed >= Unwrap(loc).timeout_ms
       THEN /\ w_out' = [w_out EXCEPT !.wait_gone =
                            Some([ok |-> FALSE, v |-> "Timeout", elapsed |-> elapsed])]
            /\ w_pc' = "done"
       ELSE /\ w_pc' = "sleep"
            /\ UNCHANGED w_out
    /\ UNCHANGED <<noncore, matchvars, deskvars, ui, locvars, w_fn, elapsed, w_finds, ui_changed>>

\* wait_gone(): std::thread::sleep(Duration::from_millis(100))
GoneSleep ==
    /\ w_fn = "wait_gone"
    /\ w_pc = "sleep"
    /\ elapsed' = elapsed + POLL_MS
    /\ w_pc' = "find"
    /\ UNCHANGED <<noncore, matchvars, deskvars, ui, locvars, w_fn, w_finds, w_out, ui_changed>>

\* the waiter has returned
WaitReturn ==
    /\ w_fn # "none"
    /\ w_pc = "done"
    /\ w_fn' = "none"
    /\ UNCHANGED <<noncore, matchvars, deskvars, ui, locvars, w_pc, elapsed, w_finds, w_out, ui_changed>>

\* ------------------------------------------------------------- desktop.rs
\* the bytes of a value that build_tree keeps
VALUE_MAX == 100

\* A value is written as a sequence of runs, [c |-> character, n |-> times]:
\* a hundred times "v" is one run.
RunBytes(r) == r.n * Utf8Len(r.c)

\* v.len(), in bytes
RECURSIVE len(_)
len(v) == IF v = <<>> THEN 0 ELSE RunBytes(Head(v)) + len(Tail(v))

\* v.is_char_boundary(n), for n <= v.len()
RECURSIVE is_char_boundary(_, _)
is_char_boundary(v, n) ==
    IF n = 0 THEN TRUE
    ELSE IF RunBytes(Head(v)) <= n THEN is_char_boundary(Tail(v), n - RunBytes(Head(v)))
    ELSE n % Utf8Len(Head(v).c) = 0

\* &v[..n], for n on a character boundary
RECURSIVE byte_prefix(_, _)
byte_prefix(v, n) ==
    IF n = 0 THEN <<>>
    ELSE IF RunBytes(Head(v)) <= n
         THEN <<Head(v)>> \o byte_prefix(Tail(v), n - RunBytes(Head(v)))
    ELSE <<[c |-> Head(v).c, n |-> n \div Utf8Len(Head(v).c)]>>

\* the slice &v[..100] of build_tree panics inside a character
slice_panics(value) ==
    /\ IsSome(value)
    /\ len(Unwrap(value)) > VALUE_MAX
    /\ ~is_char_boundary(Unwrap(value), VALUE_MAX)

\* element.value().map(|v| if v.len() > 100 { format!("{}...", &v[..100]) } else { v })
truncate_value(value) ==
    IF IsSome(value) /\ len(Unwrap(value)) > VALUE_MAX
    THEN Some(byte_prefix(Unwrap(value), VALUE_MAX) \o <<[c |-> ".", n |-> 3]>>)
    ELSE value

\* mutant: the walk stops one level early
TooDeep_Inclusive(depth, max_depth) == depth >= max_depth

\* if depth > max_depth { return; }
TooDeep(depth, max_depth) == depth > max_depth

\* mutant: tree() keeps the elements of the previous walk
cleared_Kept(cache) == cache

\* self.tree_cache.clear()
cleared(cache) == <<>>

\* the TreeNode of an element
TreeNode(tree, element, depth, index) ==
    LET el == tree.els[element] IN
    [index |-> index,
     role |-> IF IsSome(get_role(el)) THEN Unwrap(get_role(el)) ELSE Unknown,
     name |-> get_role_desc(el),
     title |-> get_title(el),
     value |-> truncate_value(get_value(el)),
     depth |-> depth,
     children_count |-> Len(get_children(tree, element))]

\* Desktop::build_tree, and its loop over the children; acc holds nodes,
\* self.tree_cache, *index and whether the walk has panicked
RECURSIVE build_tree(_, _, _, _, _)
RECURSIVE build_children(_, _, _, _, _)
build_tree(tree, element, depth, max_depth, acc) ==
    IF acc.panicked \/ TooDeep(depth, max_depth) THEN acc
    ELSE IF slice_panics(get_value(tree.els[element]))
         THEN [acc EXCEPT !.panicked = TRUE]
    ELSE build_children(tree, get_children(tree, element), depth + 1, max_depth,
            [nodes |-> Append(acc.nodes, TreeNode(tree, element, depth, acc.index)),
             tree_cache |-> Append(acc.tree_cache,
                                   with_index(UIElement_new(element), acc.index)),
             index |-> acc.index + 1,
             panicked |-> FALSE])

build_children(tree, children, depth, max_depth, acc) ==
    IF children = <<>> THEN acc
    ELSE build_children(tree, Tail(children), depth, max_depth,
                        build_tree(tree, Head(children), depth, max_depth, acc))

\* the thread of the caller has panicked inside tree()
Panicked == IsSome(tree_out) /\ ~Unwrap(tree_out).ok /\ Unwrap(tree_out).v.code = "panic"

\* a call of Desktop::tree(app, max_depth)
TreeCall(max_depth) ==
    /\ IsSome(ui)
    /\ ~Panicked
    /\ eb_out = None
    /\ tree_call' = Some([max_depth |-> max_depth, ui |-> Unwrap(ui),
                          cached |-> Len(tree_cache)])
    /\ IF ~app_up
       THEN /\ tree_out' = Some(Error("AppNotRunning", <<>>, None))
            /\ UNCHANGED tree_cache
       ELSE LET acc == build_tree(Unwrap(ui), 1, 0, max_depth,
                                  [nodes |-> <<>>, tree_cache |-> cleared(tree_cache),
                                   index |-> 0, panicked |-> FALSE])
            IN /\ tree_cache' = acc.tree_cache
               /\ tree_out' = IF acc.panicked
                               THEN Some(Error("panic", <<>>, None))
                               ELSE Some(Ok([app |-> "app",
                                             element_count |-> Len(acc.nodes),
                                             nodes |-> acc.nodes]))
    /\ UNCHANGED <<noncore, matchvars, ui, locvars, waitvars, app_up, eb_out>>

\* a call of Desktop::element_by_index(index)
ElementByIndex(index) ==
    /\ IsSome(ui)
    /\ ~Panicked
    /\ eb_out = None
    /\ eb_out' = Some([index |-> index,
                       out |-> IF index < Len(tree_cache)
                               THEN Ok(tree_cache[index + 1])
                               ELSE Error("ElementNotFound", <<>>, None)])
    /\ UNCHANGED <<noncore, matchvars, ui, locvars, waitvars, app_up, tree_cache,
                   tree_call, tree_out>>

\* the caller has taken the result of element_by_index()
ElementReturn ==
    /\ eb_out # None
    /\ eb_out' = None
    /\ UNCHANGED <<noncore, matchvars, ui, locvars, waitvars, app_up, tree_cache,
                   tree_call, tree_out>>

\* the application is started or quits: apps::get_app_by_name finds it or not
AppLaunch ==
    /\ IsSome(ui)
    /\ eb_out = None
    /\ ~app_up
    /\ app_up' = TRUE
    /\ UNCHANGED <<noncore, matchvars, ui, locvars, waitvars, tree_cache, tree_call,
                   tree_out, eb_out>>

AppQuit ==
    /\ IsSome(ui)
    /\ eb_out = None
    /\ app_up
    /\ app_up' = FALSE
    /\ UNCHANGED <<noncore, matchvars, ui, locvars, waitvars, tree_cache, tree_call,
                   tree_out, eb_out>>

\* the application closes the element with the highest number, a leaf
UiClose ==
    /\ IsSome(ui)
    /\ eb_out = None
    /\ Len(Unwrap(ui).parent) > 1
    /\ LET tree == Unwrap(ui)
           n == Len(tree.parent)
       IN ui' = Some([tree EXCEPT !.parent = SubSeq(tree.parent, 1, n - 1),
                                  !.els = SubSeq(tree.els, 1, n - 1)])
    /\ ui_changed' = TRUE
    /\ UNCHANGED <<noncore, matchvars, deskvars, locvars, w_fn, w_pc, elapsed, w_finds, w_out>>

\* ------------------------------------------------------- the environment
Coords == 0..MaxCoord
Clipboards == {None, Some(<<"x">>)}
Roles == {None, Some("AXButton")}

\* The keyboard path: the text coalescer with its idle and stop flushes, the
\* handle draining and stopping; no application is ever active.
TextKeys == {<<4, 0>>, <<18, CG_SHIFT>>, <<53, 0>>, <<4, CG_CTRL>>, <<0, CG_CMD>>}

InitText ==
    /\ mouse_move_threshold = 2
    /\ text_timeout_ms \in Timeouts
    /\ max_buffer \in 1..MaxBuffer
    /\ capture_context = FALSE
    /\ InitState
    /\ ReplayIdle
    /\ StorageIdle
    /\ SelectorIdle
    /\ CoreIdle

NextText ==
    \/ Tick
    \/ TapInstall
    \/ \E ki \in TextKeys : TapKey(ki[1], ki[2])
    \/ TapTimeout
    \/ TapCheck
    \/ TapFinalFlush
    \/ ObsLoop
    \/ ObsPollNone
    \/ Drain
    \/ StopBegin
    \/ StopDrain
    \/ Join

SpecText == InitText /\ [][NextText]_vars

\* The mouse-move path: sampling against every threshold.
InitMouse ==
    /\ mouse_move_threshold \in Thresholds
    /\ text_timeout_ms = 1
    /\ max_buffer \in 1..MaxBuffer
    /\ capture_context = FALSE
    /\ InitState
    /\ ReplayIdle
    /\ StorageIdle
    /\ SelectorIdle
    /\ CoreIdle

NextMouse ==
    \/ TapInstall
    \/ \E x \in Coords, y \in Coords : TapMove(x, y)
    \/ TapIgnored
    \/ TapTimeout
    \/ TapCheck
    \/ Drain

SpecMouse == InitMouse /\ [][NextMouse]_vars

\* The three kinds of producers on the bounded channel: the tap callback
\* (clicks, scrolls), the context helpers and the observer, with the drainer.
InitChannel ==
    /\ mouse_move_threshold = 2
    /\ text_timeout_ms = 1
    /\ max_buffer \in 1..MaxBuffer
    /\ capture_context \in BOOLEAN
    /\ InitState
    /\ ReplayIdle
    /\ StorageIdle
    /\ SelectorIdle
    /\ CoreIdle

NextChannel ==
    \/ TapInstall
    \/ \E b \in {0, 1} : TapClick(3, 1, b, 1, 0)
    \/ \E dy \in {0, 1} : TapScroll(0, 0, 0, dy)
    \/ \E k \in {KEY_C, KEY_X} : TapKey(k, CG_CMD)
    \/ TapTimeout
    \/ TapCheck
    \/ \E h \in helpers, r \in Roles : HelperContext(h, r)
    \/ \E h \in helpers, c \in Clipboards : HelperClipboard(h, c)
    \/ ObsLoop
    \/ ObsPollApp("Finder", 1)
    \/ \E w \in {None, Some(<<"w", "1">>)} : ObsPollWindow(w)
    \/ Drain

SpecChannel == InitChannel /\ [][NextChannel]_vars

\* The focus observer alone: applications and window titles come and go
\* between polls, the handle drains.
Apps == {<<"Finder", 1>>, <<"Finder", 2>>, <<"Safari", 3>>}
Titles == {None, Some(<<"w", "1">>), Some(<<"w", "2">>)}

InitObserver ==
    /\ mouse_move_threshold = 2
    /\ text_timeout_ms = 1
    /\ max_buffer \in 1..MaxBuffer
    /\ capture_context = FALSE
    /\ InitState
    /\ ReplayIdle
    /\ StorageIdle
    /\ SelectorIdle
    /\ CoreIdle

NextObserver ==
    \/ ObsLoop
    \/ ObsPollNone
    \/ \E a \in Apps : ObsPollApp(a[1], a[2])
    \/ \E w \in Titles : ObsPollWindow(w)
    \/ Drain

SpecObserver == InitObserver /\ [][NextObserver]_vars

\* The timeline: the tap thread (text, keys, Cmd+V with its clipboard read)
\* and the observer stamping events concurrently, the handle draining and
\* stopping.
OrderKeys == {<<4, 0>>, <<KEY_V, CG_CMD>>}

Init ==
    /\ mouse_move_threshold = 2
    /\ text_timeout_ms = 1
    /\ max_buffer = MaxBuffer
    /\ capture_context = FALSE
    /\ InitState
    /\ ReplayIdle
    /\ StorageIdle
    /\ SelectorIdle
    /\ CoreIdle

Next ==
    \/ Tick
    \/ TapInstall
    \/ TapInstallFails
    \/ \E ki \in OrderKeys : TapKey(ki[1], ki[2])
    \/ TapClipboard(Some(<<"x">>))
    \/ TapPasteKey
    \/ TapTimeout
    \/ TapCheck
    \/ TapFinalFlush
    \/ ObsLoop
    \/ ObsPollApp("Finder", 1)
    \/ \E w \in {None, Some(<<"w", "1">>)} : ObsPollWindow(w)
    \/ Drain
    \/ StopBegin
    \/ StopDrain
    \/ Join

Spec == Init /\ [][Next]_vars

\* Stopping a session: clicks with context capture, Cmd+C and text while the
\* handle stops; helper threads finish when they finish.
InitStop ==
    /\ mouse_move_threshold = 2
    /\ text_timeout_ms = 1
    /\ max_buffer \in 1..MaxBuffer
    /\ capture_context = TRUE
    /\ InitState
    /\ ReplayIdle
    /\ StorageIdle
    /\ SelectorIdle
    /\ CoreIdle

NextStop ==
    \/ TapInstall
    \/ TapInstallFails
    \/ TapClick(3, 1, 0, 1, 0)
    \/ \E ki \in {<<4, 0>>, <<KEY_C, CG_CMD>>} : TapKey(ki[1], ki[2])
    \/ TapTimeout
    \/ TapCheck
    \/ TapFinalFlush
    \/ \E h \in helpers, r \in Roles : HelperContext(h, r)
    \/ \E h \in helpers, c \in Clipboards : HelperClipboard(h, c)
    \/ ObsLoop
    \/ ObsPollNone
    \/ Drain
    \/ StopBegin
    \/ StopDrain
    \/ Join

SpecStop == InitStop /\ [][NextStop]_vars

\* Stopping under the scheduling the threads can count on: run_in_mode
\* returns after 50 ms at the latest, the observer's sleep ends, every loop
\* body and stop() itself keep running.  Text and keys arrive at any time.
InitStopLive ==
    /\ mouse_move_threshold = 2
    /\ text_timeout_ms = 1
    /\ max_buffer \in 1..MaxBuffer
    /\ capture_context = FALSE
    /\ InitState
    /\ ReplayIdle
    /\ StorageIdle
    /\ SelectorIdle
    /\ CoreIdle

NextStopLive ==
    \/ TapInstall
    \/ TapInstallFails
    \/ \E ki \in {<<4, 0>>, <<53, 0>>} : TapKey(ki[1], ki[2])
    \/ TapTimeout
    \/ TapCheck
    \/ TapFinalFlush
    \/ ObsLoop
    \/ ObsPollNone
    \/ Drain
    \/ StopBegin
    \/ StopDrain
    \/ Join

SpecStopLive ==
    /\ InitStopLive
    /\ [][NextStopLive]_vars
    /\ WF_vars(TapInstall)
    /\ WF_vars(TapTimeout)
    /\ WF_vars(TapCheck)
    /\ WF_vars(TapFinalFlush)
    /\ WF_vars(ObsLoop)
    /\ WF_vars(ObsPollNone)
    /\ WF_vars(StopDrain)
    /\ WF_vars(Join)

\* Key-downs of every kind: plain, shifted, caps-locked and Opt characters,
\* a key without a character, Ctrl and Cmd combinations, Cmd+C and Cmd+V
\* with its clipboard read.
KeyDowns ==
    {<<4, 0>>, <<18, CG_SHIFT>>, <<4, CG_CAPS>>, <<4, CG_OPT>>, <<53, 0>>,
     <<4, CG_CTRL>>, <<0, CG_CMD>>, <<KEY_C, CG_CMD>>, <<KEY_V, CG_CMD>>,
     <<KEY_V, CG_CMD + CG_CTRL>>}

InitKeyDown ==
    /\ mouse_move_threshold = 2
    /\ text_timeout_ms = 1
    /\ max_buffer \in 1..MaxBuffer
    /\ capture_context = FALSE
    /\ InitState
    /\ ReplayIdle
    /\ StorageIdle
    /\ SelectorIdle
    /\ CoreIdle

NextKeyDown ==
    \/ Tick
    \/ TapInstall
    \/ \E ki \in KeyDowns : TapKey(ki[1], ki[2])
    \/ \E c \in Clipboards : TapClipboard(c)
    \/ TapPasteKey
    \/ TapTimeout
    \/ TapCheck
    \/ Drain

SpecKeyDown == InitKeyDown /\ [][NextKeyDown]_vars

\* the recorder is not running
RecorderIdle ==
    /\ mouse_move_threshold = 2
    /\ text_timeout_ms = 1
    /\ max_buffer = 1
    /\ capture_context = FALSE
    /\ InitState

\* workflows: the sequences of at most MaxReplay events over a set
SeqsUpTo(S, n) == UNION {[1..k -> S] : k \in 0..n}

\* Replay of workflows over every kind of event, on both builds, in real time.
\* The i-th event of a workflow carries t = i.
ReplayData ==
    {[e |-> "c", d |-> [x |-> 3, y |-> 1, b |-> 0, n |-> 1, m |-> 0]],
     [e |-> "c", d |-> [x |-> 3, y |-> 1, b |-> 1, n |-> 2, m |-> 0]],
     [e |-> "c", d |-> [x |-> 3, y |-> 1, b |-> 2, n |-> 3, m |-> 0]],
     [e |-> "c", d |-> [x |-> 3, y |-> 1, b |-> 0, n |-> 0, m |-> 0]],
     [e |-> "m", d |-> [x |-> 1, y |-> 2]],
     [e |-> "s", d |-> [x |-> 1, y |-> 2, dx |-> 0, dy |-> -1]],
     [e |-> "s", d |-> [x |-> 1, y |-> 2, dx |-> -1, dy |-> 0]],
     [e |-> "s", d |-> [x |-> 1, y |-> 2, dx |-> 1, dy |-> 2]],
     [e |-> "k", d |-> [k |-> KEY_C, m |-> CMD]],
     [e |-> "k", d |-> [k |-> 53, m |-> 0]],
     [e |-> "t", d |-> [s |-> <<"h", "!">>]],
     [e |-> "t", d |-> [s |-> <<"e_acute">>]],
     [e |-> "a", d |-> [n |-> "Finder", p |-> 1]],
     [e |-> "w", d |-> [a |-> "Finder", w |-> Some(<<"w", "1">>)]],
     [e |-> "x", d |-> [r |-> "AXButton"]],
     [e |-> "p", d |-> [o |-> "c", s |-> <<"x">>]]}

Stamp(ds) == [i \in 1..Len(ds) |-> [t |-> i, e |-> ds[i].e, d |-> ds[i].d]]

\* a replayer built for one of the speeds sps (Replayer::new().speed(..)) on
\* either build, and the workflow it is going to play, one of wfs
ReplayerFor(wfs, sps) ==
    /\ RecorderIdle
    /\ StorageIdle
    /\ SelectorIdle
    /\ CoreIdle
    /\ platform \in {"macos", "windows"}
    /\ speed \in sps
    /\ play_wf \in wfs
    /\ play_pc = "idle"
    /\ play_i = 0
    /\ last_t = 0
    /\ stats = [clicks |-> 0, moves |-> 0, scrolls |-> 0, keys |-> 0, text_chars |-> 0]
    /\ slept = 0
    /\ posted = <<>>

InitReplay ==
    ReplayerFor({Stamp(ds) : ds \in SeqsUpTo(ReplayData, MaxReplay) \ {<<>>}}, {4})

NextReplay ==
    \/ Play
    \/ PlayEvent
    \/ \E k \in 0..1 : PlayEventFails(k)
    \/ PlayReturn

SpecReplay == InitReplay /\ [][NextReplay]_vars

\* Replay timing: workflows of Move events with any timestamps, at speeds
\* 0.25, 0.5, 1 and 2.
Speeds == {1, 2, 4, 8}

TimedMoves == {[t |-> t, e |-> "m", d |-> [x |-> 1, y |-> 2]] : t \in 0..MaxTime}

InitTiming == ReplayerFor(SeqsUpTo(TimedMoves, MaxReplay) \ {<<>>}, Speeds)

SpecTiming == InitTiming /\ [][NextReplay]_vars

\* Replay of recorded text: one Text event of one or two characters, the
\* first of them any character the recorder's keycode_to_char produces.
RecordedChars ==
    {Unwrap(keycode_to_char(k, m)) : k \in DOMAIN KeyTable, m \in {0, SHIFT, CAPS, OPT}}

RecordedTexts ==
    {<<c>> : c \in RecordedChars} \cup {<<c, "A">> : c \in RecordedChars}

InitTable ==
    ReplayerFor({<<[t |-> 0, e |-> "t", d |-> [s |-> txt]]>> : txt \in RecordedTexts}, {4})

SpecTable == InitTable /\ [][NextReplay]_vars

\* Replay of one Key event, for every modifier byte.
ModifierBytes == 0..63

KeyEvents == {[t |-> 0, e |-> "k", d |-> [k |-> k, m |-> m]] :
                 k \in {0, KEY_C}, m \in ModifierBytes}

InitKeys == ReplayerFor({<<ev>> : ev \in KeyEvents}, {4})

SpecKeys == InitKeys /\ [][NextReplay]_vars

\* Storage: one save() of a workflow, or one file of another writer, and one
\* load().
NameChars == {"a", "n", "dquote", "backslash", "nl"}
Names == SeqsUpTo(NameChars, 2)

StoreEvents ==
    {[t |-> 0, e |-> "c", d |-> [x |-> 3, y |-> 1, b |-> 0, n |-> 2, m |-> CMD]],
     [t |-> 1, e |-> "m", d |-> [x |-> 1, y |-> 2]],
     [t |-> 1, e |-> "s", d |-> [x |-> 1, y |-> 2, dx |-> 0, dy |-> -1]],
     [t |-> 1, e |-> "k", d |-> [k |-> KEY_C, m |-> CMD]],
     [t |-> 2, e |-> "t", d |-> [s |-> <<"h", "dquote", "nl">>]],
     [t |-> 0, e |-> "a", d |-> [n |-> <<"a">>, p |-> 1]],
     [t |-> 0, e |-> "w", d |-> [a |-> <<"a">>, w |-> None]],
     [t |-> 0, e |-> "w", d |-> [a |-> <<"a">>, w |-> Some(<<"w", "1">>)]],
     [t |-> 1, e |-> "p", d |-> [o |-> "c", s |-> <<"x">>]],
     [t |-> 0, e |-> "x", d |-> [r |-> "AXButton", n |-> None, v |-> None]],
     [t |-> 0, e |-> "x", d |-> [r |-> "AXButton", n |-> Some(<<"O", "K">>), v |-> Some(<<>>)]]}

StoreWorkflows ==
    {[name |-> n, events |-> es] : n \in Names, es \in SeqsUpTo(StoreEvents, MaxReplay)}

\* lines of a file of another writer: an event, an object with a tag this
\* reader does not know, an empty line, a Key object without its m
ForeignLines ==
    {JsonLine(to_json([t |-> 1, e |-> "m", d |-> [x |-> 1, y |-> 2]])),
     JsonLine([t |-> 0, e |-> "z"]),
     TextLine(<<>>),
     JsonLine([t |-> 0, e |-> "k", k |-> 1])}

ForeignFiles ==
    {[name |-> <<<<"z">>, "ts">>,
      lines |-> <<JsonLine([name |-> <<"a">>, events |-> Len(ls)])>> \o ls] :
        ls \in SeqsUpTo(ForeignLines, MaxReplay)}

\* the directory is empty and the caller has a workflow to save, or the
\* directory holds one file of another writer
InitStorage ==
    /\ RecorderIdle
    /\ ReplayIdle
    /\ \/ files = <<>> /\ store_wf \in {Some(wf) : wf \in StoreWorkflows}
       \/ files \in {<<f>> : f \in ForeignFiles} /\ store_wf = None
    /\ saved = None
    /\ loaded = None
    /\ SelectorIdle
    /\ CoreIdle

NextStorage ==
    \/ Save
    \/ \E i \in 1..Len(files) : Load(files[i].name)

SpecStorage == InitStorage /\ [][NextStorage]_vars

\* Selector strings: every concatenation of at most MaxPieces pieces.
Pieces ==
    {<<"i", "d", "x">>,
     <<"I", "d", "X", ":", "7">>,
     <<"n", "a", "m">>,
     <<":">>,
     <<"~">>,
     <<"x">>,
     <<" ">>,
     AND,
     <<"n", "a", "m", "e", "~", ":", "a", " ", "b">>,
     <<"R", "o", "l", "e", ":", "B", ":", "c">>,
     <<"i", "d", "x", ":", " ", "A", "N", "D", "tab">>}

RECURSIVE Flatten(_)
Flatten(ps) == IF ps = <<>> THEN <<>> ELSE Head(ps) \o Flatten(Tail(ps))

SelectorStrings == {Flatten(ps) : ps \in SeqsUpTo(Pieces, MaxPieces)}

InitSelector ==
    /\ RecorderIdle
    /\ ReplayIdle
    /\ StorageIdle
    /\ CoreIdle
    /\ sel_in \in SelectorStrings
    /\ sel_out = None
    /\ sel_back = None

NextSelector == Parse \/ Reparse

SpecSelector == InitSelector /\ [][NextSelector]_vars

\* Matching of one condition against one element: every attribute and
\* operator, against attributes that are absent, empty or "xOk".
Attributes == {"Role", "Name", "Title", "Value", "Description", "Index"}
MatchOps == {"Equals", "Contains"}
CondValues == {<<>>, <<"o", "k">>, <<"x", "O", "k">>}
AttrValues == {None, Some(<<>>), Some(<<"x", "O", "k">>)}

Conditions == [attr : Attributes, op : MatchOps, value : CondValues]

Elements ==
    [role : AttrValues, role_desc : AttrValues, title : AttrValues,
     value : AttrValues, desc : AttrValues]

InitMatch ==
    /\ RecorderIdle
    /\ ReplayIdle
    /\ StorageIdle
    /\ SelectorIdle
    /\ match_in \in {Some([cond |-> c, element |-> el]) : c \in Conditions, el \in Elements}
    /\ match_out = None
    /\ ui = None
    /\ LocatorIdle
    /\ WaitIdle
    /\ DesktopIdle

NextMatch == Match

SpecMatch == InitMatch /\ [][NextMatch]_vars

\* Accessibility trees of at most MaxNodes elements, buttons and groups.
Parents(n) == {p \in [1..n -> 0..n] : p[1] = 0 /\ \A i \in 2..n : p[i] \in 1..(i - 1)}

El(role) == [role |-> role, role_desc |-> None, title |-> None, value |-> None, desc |-> None]

Button == El(Some(<<"B">>))
Group == El(Some(<<"G">>))

Trees ==
    UNION {[parent : Parents(n), rev : BOOLEAN, els : [1..n -> {Button, Group}]] :
              n \in 1..MaxNodes}

Cond(attr, op, value) == [attr |-> attr, op |-> op, value |-> value]

\* role:B, role:B AND index:1, index:0
LocSelectors ==
    {<<Cond("Role", "Equals", <<"B">>)>>,
     <<Cond("Role", "Equals", <<"B">>), Cond("Index", "Equals", <<"1">>)>>,
     <<Cond("Index", "Equals", <<"0">>)>>}

Locators == [selector : LocSelectors, timeout_ms : {5000}, max_depth : 0..MaxDepth]

InitLocator ==
    /\ RecorderIdle
    /\ ReplayIdle
    /\ StorageIdle
    /\ SelectorIdle
    /\ MatchIdle
    /\ ui \in {Some(t) : t \in Trees}
    /\ loc \in {Some(l) : l \in Locators}
    /\ find_all_out = None
    /\ find_out = None
    /\ click_out = None
    /\ WaitIdle
    /\ DesktopIdle

NextLocator == FindAll \/ Find \/ Click

SpecLocator == InitLocator /\ [][NextLocator]_vars

\* The waiters on a tree of at most two elements that changes while they
\* poll, with timeouts on and between the multiples of the poll period.
WaitTimeouts == {0, 100, 150}

InitWait ==
    /\ RecorderIdle
    /\ ReplayIdle
    /\ StorageIdle
    /\ SelectorIdle
    /\ MatchIdle
    /\ ui \in {Some(t) : t \in {tr \in Trees : Len(tr.parent) <= 2 /\ ~tr.rev}}
    /\ loc \in {Some([selector |-> <<Cond("Role", "Equals", <<"B">>)>>,
                      timeout_ms |-> ms, max_depth |-> 1]) : ms \in WaitTimeouts}
    /\ find_all_out = None
    /\ find_out = None
    /\ click_out = None
    /\ WaitIdle
    /\ DesktopIdle

NextWait ==
    \/ WaitTick
    \/ \E e \in 1..2 : UiChange(e)
    \/ WaitCall
    \/ WaitFind
    \/ WaitCheck
    \/ WaitSleep
    \/ GoneCall
    \/ GoneExists
    \/ GoneCheck
    \/ GoneSleep
    \/ WaitReturn

SpecWait == InitWait /\ [][NextWait]_vars

\* The Desktop on trees of MaxNodes elements that lose their leaves one by
\* one; the elements are told apart by their titles and the root has a value
\* of a length around the limit of build_tree.
Run(c, n) == [c |-> c, n |-> n]

DeskValues ==
    {None,
     Some(<<Run("v", VALUE_MAX)>>),
     Some(<<Run("v", VALUE_MAX + 1)>>),
     Some(<<Run("e_acute", VALUE_MAX \div 2 + 1)>>),
     Some(<<Run("v", 1), Run("e_acute", VALUE_MAX \div 2)>>)}

Titled(n, value) ==
    [i \in 1..n |-> [role |-> IF i = 1 THEN Some(<<"W">>) ELSE None,
                     role_desc |-> None,
                     title |-> Some(<<ToString(i)>>),
                     value |-> IF i = 1 THEN value ELSE None,
                     desc |-> None]]

DeskTrees ==
    {[parent |-> p, rev |-> r, els |-> Titled(MaxNodes, v)] :
        p \in Parents(MaxNodes), r \in BOOLEAN, v \in DeskValues}

InitTree ==
    /\ RecorderIdle
    /\ ReplayIdle
    /\ StorageIdle
    /\ SelectorIdle
    /\ MatchIdle
    /\ LocatorIdle
    /\ WaitIdle
    /\ ui \in {Some(t) : t \in DeskTrees}
    /\ app_up = TRUE
    /\ tree_cache = <<>>
    /\ tree_call = None
    /\ tree_out = None
    /\ eb_out = None

NextTree ==
    \/ \E d \in 0..MaxDepth : TreeCall(d)
    \/ \E i \in 0..MaxNodes : ElementByIndex(i)
    \/ ElementReturn
    \/ AppLaunch
    \/ AppQuit
    \/ UiClose

SpecTree == InitTree /\ [][NextTree]_vars

\* ------------------------------------------------------------------ claims
\* the events recorded so far, in the order they were enqueued
Stream == events \o chan

IsPrefix(p, q) == Len(p) <= Len(q) /\ SubSeq(q, 1, Len(p)) = p

RECURSIVE ConcatText(_)
ConcatText(es) ==
    IF es = <<>> THEN <<>>
    ELSE (IF Head(es).e = "t" THEN Head(es).d.s ELSE <<>>) \o ConcatText(Tail(es))

\* C1: when stop(workflow) has returned, the characters that were in the text
\* buffer when stop was requested are part of a Text event of workflow.events.
C1_StopFlushRecorded ==
    (handle_pc = "stopped" /\ IsSome(buf_at_stop) /\ Unwrap(buf_at_stop) # <<>>)
        => \E i \in 1..Len(events) :
              /\ events[i].e = "t"
              /\ IsPrefix(Unwrap(buf_at_stop), events[i].d.s)

\* C2: a key-down that is not buffered as text (a CMD/CTRL combination or a
\* key without a character) and arrives while the text buffer is non-empty
\* empties the buffer, and the buffered text is enqueued as a Text event in
\* front of the Key event.
C2_FlushBeforeKey ==
    [][\A ki \in TextKeys :
          (/\ TapKey(ki[1], ki[2])
           /\ ~Printable(ki[1], from_cg_flags(ki[2]))
           /\ text_buf.chars # <<>>)
          => /\ text_buf'.chars = <<>>
             /\ Len(chan) + 2 <= max_buffer
                  => /\ Len(chan') = Len(chan) + 2
                     /\ chan'[Len(chan) + 1].e = "t"
                     /\ chan'[Len(chan) + 1].d.s = text_buf.chars
                     /\ chan'[Len(chan) + 2].e = "k"]_vars
C4_TextConcat ==
    /\ flushed \o text_buf.chars = typed
    /\ tap_pc = "done" => flushed = typed
    /\ dropped = {} => ConcatText(Stream) = flushed

\* two printable characters went out in two Text events of a finished session
C4_Witness ==
    /\ tap_pc = "done"
    /\ typed = <<"h", "!">>
    /\ nsent = 2
    /\ ConcatText(Stream) = typed

\* C5: the last event of workflow.events is not earlier than the first.
C5_LastNotBeforeFirst ==
    Len(events) > 0 => events[Len(events)].t >= events[1].t

\* C6: two events of workflow.events that were sent by the tap thread, or by
\* the observer, are in the order of their try_send calls and the later one
\* has no smaller t.
C6_SameThreadOrder ==
    \A i, j \in 1..Len(events) :
        (i < j /\ events[i].src = events[j].src /\ events[i].src \in {"tap", "obs"})
            => (events[i].n < events[j].n /\ events[i].t <= events[j].t)

\* the Paste and the Key event of one Cmd+V recorded in this order with the
\* t of the key-down, around a later-stamped event of the observer
C6_Witness ==
    \E i, j, k \in 1..Len(events) :
        /\ i < k /\ k < j
        /\ events[i].src = "tap" /\ events[i].e = "p"
        /\ events[k].src = "obs" /\ events[k].t > events[j].t
        /\ events[j].src = "tap" /\ events[j].e = "k"

\* C7: the Text event of an idle flush carries the time of the last buffered
\* keystroke.
C7_IdleFlushAtLastTime ==
    \A i \in 1..Len(Stream) :
        (Stream[i].e = "t" /\ Stream[i].d.why = "idle")
            => Stream[i].t = Stream[i].d.last

\* C8 as stated: a Move event is emitted only when the distance from the last
\* emitted position exceeds the threshold, and last_mouse changes only when a
\* Move event is emitted.
C8_MoveOnlyAboveThreshold ==
    [][/\ \A x, y \in Coords :
            (TapMove(x, y) /\ nsent' = nsent + 1)
               => DistSq(x, y, last_mouse) > mouse_move_threshold * mouse_move_threshold
       /\ last_mouse' # last_mouse => nsent' = nsent + 1]_vars

\* C8 as amended: a Move event is emitted only when the distance from the last
\* emitted position is at least the threshold, and last_mouse changes only
\* when a Move event is emitted.
C8_MoveOnlyFromThreshold ==
    [][/\ \A x, y \in Coords :
            (TapMove(x, y) /\ nsent' = nsent + 1)
               => DistSq(x, y, last_mouse) >= mouse_move_threshold * mouse_move_threshold
       /\ last_mouse' # last_mouse
            => (nsent' = nsent + 1 /\ \E x, y \in Coords : TapMove(x, y))]_vars

\* a first move of exactly the threshold was emitted, and a second, shorter
\* one was not
C8_Witness ==
    /\ mouse_move_threshold = 2
    /\ last_mouse = <<2, 0>>
    /\ ninputs = 2
    /\ nsent = 1

\* C9: with mouse_move_threshold = 0 every mouse-moved or dragged input has a
\* Move event handed to try_send, and enqueued when the channel is not full.
C9_ZeroThresholdEmitsAll ==
    [][\A x, y \in Coords :
          (TapMove(x, y) /\ mouse_move_threshold = 0)
             => /\ nsent' = nsent + 1
                /\ last_mouse' = <<x, y>>
                /\ Len(chan) < max_buffer
                     => /\ Len(chan') = Len(chan) + 1
                        /\ chan'[Len(chan')].e = "m"
                        /\ chan'[Len(chan')].d = [x |-> ToI32(x), y |-> ToI32(y)]]_vars

\* threshold 0: two moves to the position the cursor already had were both
\* recorded
C9_Witness ==
    /\ mouse_move_threshold = 0
    /\ last_mouse = <<0, 0>>
    /\ ninputs = 2
    /\ Len(Stream) = 2
    /\ \A i \in 1..2 : Stream[i].e = "m"

\* C10: a Context event is recorded only with capture_context enabled, only
\* for a click, and behind the Click event of that click (unless the full
\* channel dropped that Click event).
C10_ContextAfterClick ==
    \A j \in 1..Len(Stream) :
        Stream[j].e = "x"
            => /\ capture_context
               /\ Stream[j].src = "helper"
               /\ Stream[j].d.click \in 1..nsent
               /\ \/ Stream[j].d.click \in dropped
                  \/ \E i \in 1..(j - 1) :
                        Stream[i].e = "c" /\ Stream[i].n = Stream[j].d.click

\* a Context event recorded right behind its Click event
C10_Witness ==
    /\ capture_context
    /\ \E j \in 2..Len(Stream) :
          /\ Stream[j].e = "x"
          /\ Stream[j - 1].e = "c"
          /\ Stream[j - 1].n = Stream[j].d.click

\* C11: a poll that finds the active application (name, pid) different from
\* the last one seen hands an App event and then a Window event for that
\* application to try_send; a poll that finds the same application and a
\* focused window title different from the last one seen hands over a Window
\* event only; a poll that finds neither changed, or no active application,
\* hands over nothing.
C11_ObserverPoll ==
    [][/\ \A a \in Apps :
            ObsPollApp(a[1], a[2]) =>
               IF obs.last_app # Some(a[1]) \/ obs.last_pid # a[2]
               THEN /\ nsent' = nsent + 1
                    /\ Unwrap(obs_cur').app_changed
                    /\ Len(chan) < max_buffer =>
                          /\ chan'[Len(chan')].e = "a"
                          /\ chan'[Len(chan')].d = [n |-> a[1], p |-> a[2]]
               ELSE /\ nsent' = nsent
                    /\ ~Unwrap(obs_cur').app_changed
                    /\ chan' = chan
       /\ \A w \in Titles :
            ObsPollWindow(w) =>
               IF Unwrap(obs_cur).app_changed \/ w # obs.last_window
               THEN /\ nsent' = nsent + 1
                    /\ Len(chan) < max_buffer =>
                          /\ chan'[Len(chan')].e = "w"
                          /\ chan'[Len(chan')].d.a = Unwrap(obs_cur).name
                          /\ chan'[Len(chan')].d.w = w
                    /\ Unwrap(obs_cur).app_changed =>
                          \A i \in 1..Len(Stream) :
                             Stream[i].n = nsent =>
                                /\ Stream[i].e = "a"
                                /\ Stream[i].d.n = Unwrap(obs_cur).name
               ELSE /\ nsent' = nsent
                    /\ chan' = chan
       /\ ObsPollNone => (nsent' = nsent /\ chan' = chan)]_vars

\* two polls recorded App, Window, App, Window: the second found the same
\* name under another pid
C11_Witness ==
    /\ npolls = 2
    /\ obs_pc = "loop"
    /\ Len(Stream) = 4
    /\ Stream[1].e = "a" /\ Stream[2].e = "w"
    /\ Stream[3].e = "a" /\ Stream[4].e = "w"
    /\ Stream[1].d.n = Stream[3].d.n
    /\ Stream[1].d.p # Stream[3].d.p

\* replay: the timestamps of a workflow never go back
NonDecreasing(wf) == \A i \in 1..(Len(wf) - 1) : wf[i].t <= wf[i + 1].t

Sign(n) == IF n > 0 THEN 1 ELSE IF n < 0 THEN -1 ELSE 0

CountKind(wf, e) == Cardinality({i \in 1..Len(wf) : wf[i].e = e})

CountIo(ins, ios) == Cardinality({i \in 1..Len(ins) : ins[i].io \in ios})

\* C12: when play() has returned for a workflow whose timeline runs from 0 to
\* T (the t of its last event) at speed s, the delays it slept add up to T/s,
\* short of it by less than one millisecond however many events there are.
C12_TotalDelay ==
    (play_pc = "done" /\ play_wf # <<>> /\ NonDecreasing(play_wf))
        => LET T == play_wf[Len(play_wf)].t IN
             /\ slept * speed <= 4 * T
             /\ 4 * T - slept * speed < speed

\* C13: the replay of a Key event hands the OS a key-down and then a key-up
\* for the recorded keycode, each carrying the flag of every SHIFT, CTRL, OPT
\* and CMD bit of the recorded modifier byte and of no other of these.
C13_KeyDownUpWithFlags ==
    (play_pc = "done" /\ Len(play_wf) = 1 /\ play_wf[1].e = "k")
        => /\ Len(posted) = 2
           /\ posted[1].io = "key_down"
           /\ posted[2].io = "key_up"
           /\ \A i \in 1..2 :
                 /\ posted[i].code = play_wf[1].d.k
                 /\ \A bm \in {<<SHIFT, CG_SHIFT>>, <<CTRL, CG_CTRL>>,
                                <<OPT, CG_OPT>>, <<CMD, CG_CMD>>} :
                       Bit(play_wf[1].d.m, bm[1]) <=> Bit(posted[i].flags, bm[2])

\* C14: the flags the macOS replayer builds from a modifier byte m, read back
\* by Modifiers::from_cg_flags, are m again, for every m in 0..63.
C14_ModifierRoundTrip ==
    (platform = "macos" /\ play_pc = "done" /\ Len(play_wf) = 1 /\ play_wf[1].e = "k")
        => \A i \in 1..Len(posted) :
              from_cg_flags(posted[i].flags) = play_wf[1].d.m

\* C15: the replay of a Scroll event ends with a wheel input whose vertical
\* amount has the sign of the recorded dy and whose horizontal amount has the
\* sign of the recorded dx.
C15_ScrollSign ==
    [][(play_i' = play_i + 1 /\ play_wf[play_i'].e = "s")
          => LET w == posted'[Len(posted')] IN
               /\ Len(posted') > Len(posted)
               /\ w.io = "wheel"
               /\ Sign(w.v) = Sign(play_wf[play_i'].d.dy)
               /\ Sign(w.h) = Sign(play_wf[play_i'].d.dx)]_vars

C17_Stats ==
    play_pc = "done"
        => /\ stats.clicks = CountKind(play_wf, "c")
           /\ stats.moves = CountKind(play_wf, "m")
           /\ stats.scrolls = CountKind(play_wf, "s")
           /\ stats.keys = CountKind(play_wf, "k")
           /\ stats.text_chars =
                 CountIo(posted, {"key_down", "unicode_down"}) - CountKind(play_wf, "k")
           /\ (\A i \in 1..Len(play_wf) : play_wf[i].e \in {"a", "w", "x", "p"})
                 => posted = <<>>

\* the events of the lines of a file that carry a known tag, in order
RECURSIVE KnownEvents(_)
KnownEvents(lines) ==
    IF lines = <<>> THEN <<>>
    ELSE (IF Head(lines).k = "json" /\ from_json(Head(lines).v).ok
          THEN <<from_json(Head(lines).v).v>> ELSE <<>>)
         \o KnownEvents(Tail(lines))

\* C18: the load() of the file a save(W) wrote returns a workflow with the
\* name of W and the events of W, in order and field by field.
C18_SaveLoadRoundTrip ==
    (IsSome(saved) /\ IsSome(loaded))
        => /\ Unwrap(loaded).ok
           /\ Unwrap(loaded).v.name = Unwrap(saved).wf.name
           /\ Unwrap(loaded).v.events = Unwrap(saved).wf.events

\* C19: the load() of a file whose event lines are events or objects with an
\* unknown tag returns the workflow of the events, the other lines skipped.
C19_UnknownTagSkipped ==
    (/\ saved = None
     /\ IsSome(loaded)
     /\ \A i \in 2..Len(files[1].lines) :
           LET l == files[1].lines[i] IN
              l.k = "json" /\ (from_json(l.v).ok \/ l.v.e \notin Tags))
        => /\ Unwrap(loaded).ok
           /\ Unwrap(loaded).v.events = KnownEvents(Tail(files[1].lines))

\* the names of the attributes a selector may use, and the Attribute of each
AttributeNames ==
    {<<<<"r", "o", "l", "e">>, "Role">>,
     <<<<"n", "a", "m", "e">>, "Name">>,
     <<<<"t", "i", "t", "l", "e">>, "Title">>,
     <<<<"v", "a", "l", "u", "e">>, "Value">>,
     <<<<"d", "e", "s", "c">>, "Description">>,
     <<<<"d", "e", "s", "c", "r", "i", "p", "t", "i", "o", "n">>, "Description">>,
     <<<<"i", "n", "d", "e", "x">>, "Index">>,
     <<<<"i", "d", "x">>, "Index">>}

\* a and b are the same word up to the case of their letters
SameWord(a, b) ==
    /\ Len(a) = Len(b)
    /\ \A i \in 1..Len(a) :
          \/ a[i] = b[i]
          \/ \E j \in 1..26 : {a[i], b[i]} = {UpperLetters[j], LowerLetters[j]}

\* the position of the first ':' of a part, 0 when it has none
FirstColon(p) ==
    IF \E i \in 1..Len(p) : p[i] = ":"
    THEN CHOOSE i \in 1..Len(p) : p[i] = ":" /\ \A j \in 1..(i - 1) : p[j] # ":"
    ELSE 0

\* what a part writes in front of its ':' or '~:'
WrittenAttr(p) ==
    LET c == FirstColon(p) IN
    IF c > 1 /\ p[c - 1] = "~" THEN SubSeq(p, 1, c - 2) ELSE SubSeq(p, 1, c - 1)

\* C20: Selector::parse(s) is Err(SelectorInvalid) exactly when s is empty
\* after trimming or one of its parts (the trimmed pieces between " AND ") has
\* no ':' or writes no known attribute name in front of it; otherwise it is
\* Ok with one condition per part, in order: the attribute named, whatever the
\* case of the letters, Contains for "attr~:value" and Equals for
\* "attr:value", and as value all that follows the first ':'.
C20_ParseContract ==
    IsSome(sel_out) =>
        LET out == Unwrap(sel_out)
            parts == [i \in 1..Len(split(trim(sel_in), AND, <<>>)) |->
                        trim(split(trim(sel_in), AND, <<>>)[i])]
            good(p) == /\ FirstColon(p) > 0
                       /\ \E an \in AttributeNames : SameWord(WrittenAttr(p), an[1])
            invalid == \/ trim(sel_in) = <<>>
                       \/ \E i \in 1..Len(parts) : ~good(parts[i])
        IN /\ invalid <=> ~out.ok
           /\ ~out.ok => out.v = "SelectorInvalid"
           /\ ~invalid =>
                 /\ out.ok
                 /\ Len(out.v.conditions) = Len(parts)
                 /\ \A i \in 1..Len(parts) :
                       LET p == parts[i]
                           c == out.v.conditions[i]
                       IN /\ \E an \in AttributeNames :
                                SameWord(WrittenAttr(p), an[1]) /\ c.attr = an[2]
                          /\ c.op = (IF p[FirstColon(p) - 1] = "~" THEN "Contains" ELSE "Equals")
                          /\ c.value = SubSeq(p, FirstColon(p) + 1, Len(p))

\* "name~:a b AND IdX:7" was parsed into (Name, Contains, "a b") and
\* (Index, Equals, "7")
C20_Witness ==
    /\ IsSome(sel_out)
    /\ Unwrap(sel_out).ok
    /\ Len(Unwrap(sel_out).v.conditions) = 2
    /\ Unwrap(sel_out).v.conditions[1] =
          [attr |-> "Name", op |-> "Contains", value |-> <<"a", " ", "b">>]
    /\ Unwrap(sel_out).v.conditions[2] =
          [attr |-> "Index", op |-> "Equals", value |-> <<"7">>]

\* C21: for every string that Selector::parse accepts, parsing the to_string()
\* of the selector succeeds and yields the same conditions (attribute,
\* operator, value) in the same order.
C21_RoundTrip ==
    IsSome(sel_back) =>
        /\ Unwrap(sel_back).ok
        /\ Unwrap(sel_back).v.conditions = Unwrap(sel_out).v.conditions

\* the attribute of an element that a condition on attr is about: the name
\* of an element is its role description (UIElement::name)
AttributeOf(element, attr) ==
    CASE attr = "Role" -> element.role
      [] attr = "Name" -> element.role_desc
      [] attr = "Title" -> element.title
      [] attr = "Value" -> element.value
      [] attr = "Description" -> element.desc

\* C22: a condition on role, name, title, value or description matches
\* exactly when the element has the attribute and, for Equals, the attribute
\* is identical to the value of the condition or, for Contains, the attribute
\* in lower case holds the value in lower case as a substring; an absent
\* attribute never matches, not even an empty value.  Locator::matches with
\* that one condition returns the same.
C22_Matches ==
    (IsSome(match_out) /\ Unwrap(match_in).cond.attr # "Index") =>
        LET c == Unwrap(match_in).cond
            a == AttributeOf(Unwrap(match_in).element, c.attr)
            low(str) == to_lowercase(str)
            expected ==
                /\ IsSome(a)
                /\ c.op = "Equals" => Unwrap(a) = c.value
                /\ c.op = "Contains" =>
                      \E i \in 1..(Len(Unwrap(a)) + 1) : \E j \in (i - 1)..Len(Unwrap(a)) :
                          SubSeq(low(Unwrap(a)), i, j) = low(c.value)
        IN /\ Unwrap(match_out).cond <=> expected
           /\ Unwrap(match_out).locator <=> expected

\* "value~:ok" matched an element of value "xOk" that has no title
C22_Witness ==
    /\ IsSome(match_out)
    /\ Unwrap(match_in).cond = [attr |-> "Value", op |-> "Contains", value |-> <<"o", "k">>]
    /\ Unwrap(match_in).element.value = Some(<<"x", "O", "k">>)
    /\ Unwrap(match_in).element.title = None
    /\ Unwrap(match_out).cond
    /\ Unwrap(match_out).locator

\* the number an index condition names
IndexOf(cond) == IF cond.value = <<"0">> THEN 0 ELSE 1

NoIndex(cond) == cond.attr # "Index"

\* C23: with an index:k condition in the selector, the locator finds the
\* single element candidates[k] (counted from 0), candidates being the
\* elements that match the other conditions, in the order of the walk.
C23_IndexApplied ==
    (/\ IsSome(find_out)
     /\ \E i \in 1..Len(Unwrap(loc).selector) : ~NoIndex(Unwrap(loc).selector[i]))
        => LET l == Unwrap(loc)
               k == IndexOf(l.selector[CHOOSE i \in 1..Len(l.selector) :
                                          ~NoIndex(l.selector[i])])
               others == [l EXCEPT !.selector = SelectSeq(l.selector, NoIndex)]
               candidates == find_recursive(others, Unwrap(ui), 1, 0, <<>>)
           IN k < Len(candidates) =>
                 /\ Unwrap(find_out).ok
                 /\ Unwrap(find_out).v.inner = candidates[k + 1].inner

\* the elements a walk below element e sees, e included
RECURSIVE Depth(_, _)
Depth(tree, e) == IF e = 1 THEN 0 ELSE 1 + Depth(tree, tree.parent[e])

RECURSIVE AncestorOrSelf(_, _, _)
AncestorOrSelf(tree, a, e) ==
    \/ a = e
    \/ e # 1 /\ AncestorOrSelf(tree, a, tree.parent[e])

\* a comes before b in the DFS pre-order: a is above b, or they sit below
\* two children of one element of which the one above a comes first in the
\* native order
Before(tree, a, b) ==
    \/ a # b /\ AncestorOrSelf(tree, a, b)
    \/ \E x, y \in 2..Len(tree.parent) :
          /\ x # y
          /\ tree.parent[x] = tree.parent[y]
          /\ AncestorOrSelf(tree, x, a)
          /\ AncestorOrSelf(tree, y, b)
          /\ IF tree.rev THEN x > y ELSE x < y

\* the elements of the tree that match the selector of the locator
Matching(l, tree) ==
    {e \in 1..Len(tree.parent) : Locator_matches(l.selector, tree.els[e])}

\* C24: find() is ElementNotFound when find_all() yields nothing,
\* MultipleMatches when it yields more than one element, with a suggestion
\* of index:0 to index:(n-1) and the info of the matches as context, and the
\* element when it yields just one; find_all() is never an error.
C24_FindResult ==
    /\ IsSome(find_all_out) => Unwrap(find_all_out).ok
    /\ IsSome(find_out) =>
          LET out == Unwrap(find_out)
              all == find_all(Unwrap(loc), Unwrap(ui)).v
              n == Len(all)
          IN /\ n = 0 => ~out.ok /\ out.v.code = "ElementNotFound"
             /\ n = 1 => out.ok /\ out.v = all[1]
             /\ n > 1 =>
                   /\ ~out.ok
                   /\ out.v.code = "MultipleMatches"
                   /\ \E i \in 1..Len(out.v.suggestions) :
                         /\ out.v.suggestions[i][1] = "Use index:0 through index:"
                         /\ out.v.suggestions[i][2] = ToString(n - 1)
                   /\ IsSome(out.v.context)
                   /\ Len(Unwrap(out.v.context).matches) = n
                   /\ \A i \in 1..n :
                         Unwrap(out.v.context).matches[i] = info(Unwrap(ui), all[i])

\* find() met two buttons: MultipleMatches, suggesting index:0 to index:1
C24_Witness ==
    /\ IsSome(find_out)
    /\ IsSome(find_all_out)
    /\ Len(Unwrap(find_all_out).v) = 2
    /\ ~Unwrap(find_out).ok
    /\ Unwrap(find_out).v.code = "MultipleMatches"

\* C27: find_all() returns the matching elements of depth <= max_depth, and
\* no other, in the DFS pre-order of the tree under the root, and the i-th of
\* them (counted from 0) carries index i.
C27_FindAllPreOrder ==
    IsSome(find_all_out) =>
        LET l == Unwrap(loc)
            tree == Unwrap(ui)
            r == Unwrap(find_all_out).v
        IN /\ {r[i].inner : i \in 1..Len(r)} =
                 {e \in Matching(l, tree) : Depth(tree, e) <= l.max_depth}
           /\ \A i, j \in 1..Len(r) : i < j => Before(tree, r[i].inner, r[j].inner)
           /\ \A i \in 1..Len(r) : r[i].index = Some(i - 1)

\* find_all() returned two elements of which the first has the higher
\* number, and left out a matching element below max_depth
C27_Witness ==
    /\ IsSome(find_all_out)
    /\ LET r == Unwrap(find_all_out).v IN
          /\ Len(r) = 2
          /\ r[1].inner > r[2].inner
          /\ \E e \in Matching(Unwrap(loc), Unwrap(ui)) :
                Depth(Unwrap(ui), e) > Unwrap(loc).max_depth

\* C25: wait() returns the element of its first successful find(), and does
\* so with elapsed <= timeout_ms; otherwise it fails with Timeout, and only
\* once elapsed >= timeout_ms.
C25_WaitWithinTimeout ==
    IsSome(w_out.wait) =>
        LET out == Unwrap(w_out.wait) IN
        IF out.ok
        THEN /\ out.elapsed <= Unwrap(loc).timeout_ms
             /\ w_fn = "wait" =>
                   /\ w_finds[Len(w_finds)]
                   /\ \A i \in 1..(Len(w_finds) - 1) : ~w_finds[i]
        ELSE /\ out.v = "Timeout"
             /\ out.elapsed >= Unwrap(loc).timeout_ms

\* C26: on a tree that does not change, exactly one of wait() and
\* wait_gone() succeeds and the other one fails with Timeout.
C26_OppositeOutcomes ==
    (IsSome(w_out.wait) /\ IsSome(w_out.wait_gone) /\ ~ui_changed) =>
        LET w == Unwrap(w_out.wait)
            g == Unwrap(w_out.wait_gone)
        IN \/ w.ok /\ ~g.ok /\ g.v = "Timeout"
           \/ g.ok /\ ~w.ok /\ w.v = "Timeout"

\* the element of the walked tree that a node was made from, told by its title
ElementOf(tree, node) == CHOOSE e \in 1..Len(tree.parent) : tree.els[e].title = node.title

\* C28: tree(app, max_depth) returns exactly the elements of depth <=
\* max_depth, in DFS pre-order, nodes[i] with index i and the depth of its
\* element; max_depth 0 yields the root alone and max_depth 1 the root and
\* its children.
C28_TreeNodes ==
    (IsSome(tree_out) /\ Unwrap(tree_out).ok) =>
        LET tree == Unwrap(tree_call).ui
            max_depth == Unwrap(tree_call).max_depth
            nodes == Unwrap(tree_out).v.nodes
            e(i) == ElementOf(tree, nodes[i])
        IN /\ {e(i) : i \in 1..Len(nodes)} =
                 {x \in 1..Len(tree.parent) : Depth(tree, x) <= max_depth}
           /\ \A i, j \in 1..Len(nodes) : i < j => Before(tree, e(i), e(j))
           /\ \A i \in 1..Len(nodes) :
                 nodes[i].index = i - 1 /\ nodes[i].depth = Depth(tree, e(i))
           /\ max_depth = 0 => Len(nodes) = 1 /\ e(1) = 1
           /\ max_depth = 1 =>
                 {e(i) : i \in 1..Len(nodes)} =
                     {1} \cup {x \in 2..Len(tree.parent) : tree.parent[x] = 1}

\* the tree root -> [A -> [B], C] was walked: four nodes of depth 0, 1, 2, 1
C28_Witness ==
    /\ IsSome(tree_out)
    /\ Unwrap(tree_out).ok
    /\ Unwrap(tree_call).ui.parent = <<0, 1, 2, 1>>
    /\ Len(Unwrap(tree_out).v.nodes) = 4
    /\ [i \in 1..4 |-> Unwrap(tree_out).v.nodes[i].depth] = <<0, 1, 2, 1>>

\* the characters of a value
RECURSIVE CharCount(_)
CharCount(v) == IF v = <<>> THEN 0 ELSE Head(v).n + CharCount(Tail(v))

\* C29: no node of a tree walk has a value longer than 100 characters.
C29_ValueAtMost100 ==
    (IsSome(tree_out) /\ Unwrap(tree_out).ok) =>
        \A i \in 1..Len(Unwrap(tree_out).v.nodes) :
            LET value == Unwrap(tree_out).v.nodes[i].value IN
            IsSome(value) => CharCount(Unwrap(value)) <= VALUE_MAX

\* C30: after a successful tree() of N nodes, element_by_index(i) returns
\* for i < N the element that nodes[i] was made from, carrying index i, and
\* ElementNotFound for i >= N, whatever an earlier tree() had cached.
C30_ElementByIndex ==
    (IsSome(eb_out) /\ IsSome(tree_out) /\ Unwrap(tree_out).ok) =>
        LET tree == Unwrap(tree_call).ui
            nodes == Unwrap(tree_out).v.nodes
            i == Unwrap(eb_out).index
            out == Unwrap(eb_out).out
        IN IF i < Len(nodes)
           THEN /\ out.ok
                /\ out.v.index = Some(i)
                /\ out.v.inner = ElementOf(tree, nodes[i + 1])
           ELSE /\ ~out.ok
                /\ out.v.code = "ElementNotFound"

\* element_by_index(i) was ElementNotFound for an index that the tree()
\* before the last one had cached
C30_Witness ==
    /\ IsSome(eb_out)
    /\ IsSome(tree_out)
    /\ Unwrap(tree_out).ok
    /\ Unwrap(eb_out).index >= Len(Unwrap(tree_out).v.nodes)
    /\ Unwrap(eb_out).index < Unwrap(tree_call).cached
    /\ ~Unwrap(eb_out).out.ok

\* C31: click() never returns an error because the press action failed: it
\* falls back to a synthesised click and reports a result.
C31_ClickFallsBack ==
    IsSome(click_out) => Unwrap(click_out).out.ok

\* the three fields of the text buffer are set together, in time order
BufferConsistent(buf) ==
    /\ (buf.chars = <<>>) <=> (buf.first_time = None)
    /\ (buf.chars = <<>>) <=> (buf.last_time = None)
    /\ IsSome(buf.first_time) => Unwrap(buf.first_time) <= Unwrap(buf.last_time)

\* C32: the text buffer is empty iff first_time is unset iff last_time is
\* unset, and first_time <= last_time when set; a printable key on an empty
\* buffer sets first = last = now, on a non-empty buffer it keeps first and
\* sets last = now; a flush resets all three fields, and nothing is emitted
\* from an empty buffer.
C32_TextBufferStates ==
    [][/\ BufferConsistent(text_buf)
       /\ BufferConsistent(text_buf')
       /\ Len(text_buf'.chars) > Len(text_buf.chars)
            => /\ Len(text_buf'.chars) = Len(text_buf.chars) + 1
               /\ SubSeq(text_buf'.chars, 1, Len(text_buf.chars)) = text_buf.chars
               /\ text_buf'.last_time = Some(now)
               /\ text_buf'.first_time = IF text_buf.chars = <<>> THEN Some(now)
                                         ELSE text_buf.first_time
       /\ typed' # typed /\ (tap_pc' = "check")
            => Len(text_buf'.chars) > Len(text_buf.chars)
       /\ flushed' # flushed
            => /\ text_buf.chars # <<>>
               /\ flushed' = flushed \o text_buf.chars
               /\ text_buf' = EmptyBuf
               /\ nsent' = nsent + 1
       /\ (text_buf' # text_buf /\ Len(text_buf'.chars) <= Len(text_buf.chars))
            => (flushed' # flushed /\ text_buf' = EmptyBuf)
       /\ text_buf.chars = <<>> => flushed' = flushed
      ]_vars

\* a second printable key went into a buffer that was started earlier
C32_Witness ==
    /\ Len(text_buf.chars) = 2
    /\ IsSome(text_buf.first_time)
    /\ Unwrap(text_buf.first_time) < Unwrap(text_buf.last_time)
    /\ Unwrap(text_buf.last_time) = now

\* C33: the check after run_in_mode flushes the text buffer exactly when it
\* is non-empty and at least text_timeout_ms have passed since the last
\* buffered keystroke; a printable keystroke restarts that period, and every
\* Text event of an idle flush was built at least text_timeout_ms after the
\* last keystroke it holds.
C33_IdleFlush ==
    [][/\ (tap_pc = "check" /\ tap_pc' # "check")
            => ((flushed' # flushed)
                  <=> /\ text_buf.chars # <<>>
                      /\ now - Unwrap(text_buf.last_time) >= text_timeout_ms)
       /\ typed' # typed => text_buf'.last_time = Some(now)
       /\ \A i \in 1..Len(chan') :
             (chan'[i].e = "t" /\ chan'[i].d.why = "idle")
                => chan'[i].t - chan'[i].d.last >= text_timeout_ms
      ]_vars

\* two keystrokes, the second one later than the first, went out in one Text
\* event one timeout after the second
C33_Witness ==
    /\ text_timeout_ms = 1
    /\ \E i \in 1..Len(Stream) :
          /\ Stream[i].e = "t"
          /\ Stream[i].d.why = "idle"
          /\ Len(Stream[i].d.s) = 2
          /\ Stream[i].d.last = 1
          /\ Stream[i].t = 2

\* C34: the tap callback never reads the clipboard or queries accessibility
\* itself: it is never inside get_clipboard(), and every Paste and Context
\* event was sent by a helper thread.
C34_CallbackNoEnrichment ==
    /\ tap_pc # "clip"
    /\ \A i \in 1..Len(Stream) :
          Stream[i].e \in {"p", "x"} => Stream[i].src = "helper"

\* C35: when stop() has returned no helper thread spawned for a click's
\* context or for a clipboard read is still running.
C35_HelpersJoined ==
    handle_pc = "stopped" => helpers = {}

\* C36: the stop flag, once set, stays set; the tap thread and the observer
\* thread leave their loops at the first loop condition they evaluate after
\* it was set; both threads end and stop() returns.
C36_StopTerminates ==
    /\ [][/\ stop => stop'
          /\ (stop /\ tap_pc = "check" /\ tap_pc' # "check") => tap_pc' = "final"
          /\ (stop /\ tap_pc = "init" /\ tap_pc' # "init") => tap_pc' \in {"final", "done"}
          /\ (stop /\ obs_pc = "loop" /\ obs_pc' # "loop") => obs_pc' = "done"
         ]_vars
    /\ stop ~> (tap_pc = "done" /\ obs_pc = "done")
    /\ stop ~> (handle_pc = "stopped")

\* stop() has returned after a session in which the tap thread ran its loop
\* and flushed a buffered character at the end
C36_Witness ==
    /\ handle_pc = "stopped"
    /\ stop
    /\ tap_pc = "done"
    /\ obs_pc = "done"
    /\ flushed # <<>>

\* C37: a flush empties the text buffer whether or not the channel accepts
\* the Text event: with room the event carries the buffered characters, on a
\* full channel nothing is recorded, and no step other than an accepted
\* flush adds text to what is recorded.
C37_FlushAlwaysEmpties ==
    [][/\ flushed' # flushed
            => /\ text_buf' = EmptyBuf
               /\ IF Len(chan) < max_buffer
                  THEN /\ Len(chan') = Len(chan) + 1
                       /\ chan'[Len(chan')].e = "t"
                       /\ chan'[Len(chan')].d.s = text_buf.chars
                  ELSE /\ chan' = chan
                       /\ nsent' \in dropped'
       /\ (flushed' = flushed \/ Len(chan) >= max_buffer)
            => ConcatText(events' \o chan') = ConcatText(Stream)
      ]_vars

\* an idle flush met a full channel: the character is neither buffered nor
\* recorded
C37_Witness ==
    /\ tap_pc = "run"
    /\ flushed # <<>>
    /\ text_buf = EmptyBuf
    /\ ConcatText(Stream) = <<>>
    /\ nsent \in dropped

\* the Key event of (keycode, mods) was handed to try_send in this step
KeySent(keycode, mods) ==
    /\ nsent' = nsent + 1
    /\ IF Len(chan) < max_buffer
       THEN /\ Len(chan') = Len(chan) + 1
            /\ chan'[Len(chan')].e = "k"
            /\ chan'[Len(chan')].d = [k |-> keycode, m |-> mods]
       ELSE chan' = chan

\* C38: a key-down is either appended to the text buffer, and then no event
\* is sent, or sent as exactly one Key event with its keycode and modifier
\* byte, and then the buffer is unchanged; it is buffered exactly when
\* neither CMD nor CTRL is held and keycode_to_char maps the keycode.  (The
\* Key event of Cmd+V follows the clipboard read, which sends no Key event.)
C38_KeyDownOneWay ==
    [][/\ \A ki \in KeyDowns :
             TapKey(ki[1], ki[2]) =>
                LET mods == from_cg_flags(ki[2])
                    c == keycode_to_char(ki[1], mods)
                IN IF ~Bit(mods, CMD) /\ ~Bit(mods, CTRL) /\ IsSome(c)
                   THEN /\ text_buf'.chars = Append(text_buf.chars, Unwrap(c))
                        /\ nsent' = nsent
                        /\ tap_key' = None
                   ELSE /\ text_buf' = text_buf
                        /\ \/ KeySent(ki[1], mods) /\ tap_key' = None
                           \/ /\ nsent' = nsent
                              /\ tap_key' = Some([t |-> now, k |-> ki[1], m |-> mods])
       /\ (tap_pc = "clip" /\ tap_pc' # "clip")
            => /\ tap_pc' = "vkey"
               /\ UNCHANGED <<text_buf, tap_key>>
               /\ nsent' > nsent => (Len(chan') > Len(chan) => chan'[Len(chan')].e = "p")
       /\ (tap_pc = "vkey" /\ tap_pc' # "vkey")
            => /\ KeySent(Unwrap(tap_key).k, Unwrap(tap_key).m)
               /\ text_buf' = text_buf
               /\ tap_key' = None
      ]_vars

\* one character is buffered and the Key event of a Cmd+V is in the channel
\* behind its Paste event
C38_Witness ==
    /\ Len(text_buf.chars) = 1
    /\ tap_key = None
    /\ Len(chan) = 2
    /\ chan[1].e = "p"
    /\ chan[2].e = "k"
    /\ chan[2].d = [k |-> KEY_V, m |-> CMD]

\* C39: every character keycode_to_char produces has a (keycode, shift) pair
\* in char_to_keycode from which keycode_to_char yields the character again,
\* and the macOS replay of a recorded Text event posts, for every character
\* in order, a key-down and a key-up that the recorder would read as it.
C39_TablesAgree ==
    \A i \in 1..Len(play_wf) :
        play_wf[i].e = "t" =>
          LET txt == play_wf[i].d.s IN
          /\ \A j \in 1..Len(txt) :
                LET kc == char_to_keycode(txt[j]) IN
                /\ IsSome(kc)
                /\ keycode_to_char(Unwrap(kc)[1], IF Unwrap(kc)[2] THEN SHIFT ELSE 0)
                     = Some(txt[j])
          /\ (platform = "macos" /\ play_pc = "done" /\ Len(play_wf) = 1)
                => /\ Len(posted) = 2 * Len(txt)
                   /\ \A j \in 1..Len(txt) :
                         /\ posted[2 * j - 1].io = "key_down"
                         /\ posted[2 * j].io = "key_up"
                         /\ \A n \in {2 * j - 1, 2 * j} :
                               keycode_to_char(posted[n].code, from_cg_flags(posted[n].flags))
                                 = Some(txt[j])

\* backspace and a capital letter were replayed on macOS as two key pairs
C39_Witness ==
    /\ platform = "macos"
    /\ play_pc = "done"
    /\ play_wf[1].d.s = <<"bs", "A">>
    /\ Len(posted) = 4
    /\ posted[1].code = 51
    /\ posted[3].flags = CG_SHIFT

\* C40: wait() returns only after at least one find(), whatever timeout_ms
\* is, and returns Ok or a Timeout error; a find() that fails with
\* ElementNotFound or with MultipleMatches returns nothing to the caller: it
\* is followed by the timeout test, and by a sleep and another find() as long
\* as the timeout has not passed.
C40_WaitRetries ==
    [][/\ IsSome(w_out'.wait)
            => (Unwrap(w_out'.wait).ok \/ Unwrap(w_out'.wait).v = "Timeout")
       /\ (w_out.wait = None /\ IsSome(w_out'.wait)) => Len(w_finds') >= 1
       /\ (w_fn = "wait" /\ w_pc = "find" /\ w_pc' # "find")
            => LET r == find(Unwrap(loc), Unwrap(ui)) IN
               /\ Len(w_finds') = Len(w_finds) + 1
               /\ r.ok => w_out'.wait = Some([ok |-> TRUE, v |-> r.v, elapsed |-> elapsed])
               /\ ~r.ok => /\ r.v.code \in {"ElementNotFound", "MultipleMatches"}
                           /\ w_out' = w_out
                           /\ w_pc' = "check"
       /\ (w_fn = "wait" /\ w_pc = "check" /\ w_pc' # "check")
            => IF elapsed < Unwrap(loc).timeout_ms
               THEN w_pc' = "sleep" /\ w_out' = w_out
               ELSE w_pc' = "done" /\ ~Unwrap(w_out'.wait).ok
       /\ (w_fn = "wait" /\ w_pc = "sleep" /\ w_pc' # "sleep") => w_pc' = "find"
      ]_vars

\* with timeout_ms = 0, wait() has timed out after the one find() that found
\* two matching elements
C40_Witness ==
    /\ w_fn = "wait"
    /\ Unwrap(loc).timeout_ms = 0
    /\ ~ui_changed
    /\ ~find(Unwrap(loc), Unwrap(ui)).ok
    /\ find(Unwrap(loc), Unwrap(ui)).v.code = "MultipleMatches"
    /\ w_finds = <<FALSE>>
    /\ IsSome(w_out.wait)
    /\ ~Unwrap(w_out.wait).ok
    /\ Unwrap(w_out.wait).v = "Timeout"

====
